---- MODULE Spec2Model ----
(***************************************************************************)
(* Model of the semantic book recommender: the retrieval engine            *)
(* (recommender.py: BookRecommender.__init__, recommend_books,             *)
(* search_by_title, get_book_info), its explanation generator              *)
(* (_generate_explanation), the keyword utilities (extract_keywords,       *)
(* detect_language) and the index build (embed.py: generate_embeddings).   *)
(*                                                                         *)
(* Text is a TLA+ string; characters are strings of length 1.              *)
(* Distances are integers counted in tenths (DistUnit), similarity scores  *)
(* are integers counted in millionths (ScoreScale).                        *)
(***************************************************************************)
EXTENDS Integers, Sequences, FiniteSets, TLC

VARIABLES
    books_df, index, model,   \* the attributes of the BookRecommender object
    op, args, ret, exc, done, \* the call observed: its result or its exception
    langdetect_available,     \* the langdetect package can be imported
    files,                    \* the index, metadata and model files on disk
    externals,                \* what the library calls of the observed call did
    locals,                   \* local variables of the code that is running
    tracker,                  \* the InteractionTracker: its lock and its file
    chatbot,                  \* the BookChatbot and the chat sessions of the app
    curiosity_engine          \* the CuriosityEngine: its clusters

vars == <<books_df, index, model, op, args, ret, exc, done,
          langdetect_available, files, externals, locals, tracker, chatbot,
          curiosity_engine>>

\* the loaded recommender and the world around it
recommender == <<books_df, index, model>>

environment == <<langdetect_available, files>>

\* the objects the tabs of the app are built on
clients == <<chatbot, curiosity_engine>>

services == <<tracker, clients>>

\* a call returns a value or raises an exception, named by its type
Return(value) == [exc |-> "none", ret |-> value]

Raise(exception) == [exc |-> exception, ret |-> <<>>]

\* Python's None
None == [type |-> "NoneType"]

(***************************************************************************)
(* Strings                                                                 *)
(***************************************************************************)
UpperAlphabet == "ABCDEFGHIJKLMNOPQRSTUVWXYZ"

LowerAlphabet == "abcdefghijklmnopqrstuvwxyz"

CharAt(s, i) == SubSeq(s, i, i)

IsUpper(c) == \E i \in 1..Len(UpperAlphabet) : CharAt(UpperAlphabet, i) = c

IsLower(c) == \E i \in 1..Len(LowerAlphabet) : CharAt(LowerAlphabet, i) = c

\* the character class [a-zA-Z]
IsAsciiLetter(c) == IsLower(c) \/ IsUpper(c)

LowerChar(c) ==
    IF IsUpper(c)
    THEN CharAt(LowerAlphabet, CHOOSE i \in 1..Len(UpperAlphabet) : CharAt(UpperAlphabet, i) = c)
    ELSE c

UpperChar(c) ==
    IF IsLower(c)
    THEN CharAt(UpperAlphabet, CHOOSE i \in 1..Len(LowerAlphabet) : CharAt(LowerAlphabet, i) = c)
    ELSE c

RECURSIVE Lower(_)
\* str.lower()
Lower(s) == IF Len(s) = 0 THEN "" ELSE LowerChar(CharAt(s, 1)) \o Lower(SubSeq(s, 2, Len(s)))

\* str.capitalize(): first character upper-cased, the rest lower-cased
Capitalize(s) ==
    IF Len(s) = 0 THEN "" ELSE UpperChar(CharAt(s, 1)) \o Lower(SubSeq(s, 2, Len(s)))

\* Python's `sub in s` on strings
Contains(s, sub) ==
    \E i \in 1..(Len(s) - Len(sub) + 1) : SubSeq(s, i, i + Len(sub) - 1) = sub

\* Python's `x in list`
InSeq(x, seq) == \E i \in 1..Len(seq) : seq[i] = x

\* list slicing seq[:n] for n >= 0
Take(seq, n) == SubSeq(seq, 1, IF n < Len(seq) THEN n ELSE Len(seq))

(***************************************************************************)
(* Keyword extraction                                                      *)
(***************************************************************************)
STOP_WORDS == {
    "a", "an", "the", "is", "are", "was", "were", "be", "been", "being", "have", "has",
    "had", "do", "does", "did", "will", "would", "could", "should", "may", "might",
    "shall", "can", "need", "dare", "ought", "used", "to", "of", "in", "for", "on",
    "with", "at", "by", "from", "as", "into", "through", "during", "before", "after",
    "above", "below", "between", "out", "off", "over", "under", "again", "further",
    "then", "once", "here", "there", "when", "where", "why", "how", "all", "both",
    "each", "few", "more", "most", "other", "some", "such", "no", "nor", "not", "only",
    "own", "same", "so", "than", "too", "very", "just", "about", "and", "but", "or",
    "if", "while", "that", "this", "it", "i", "me", "my", "we", "our", "you", "your",
    "he", "him", "his", "she", "her", "they", "them", "their", "what", "which", "who",
    "whom", "book", "story", "novel", "like", "want", "looking", "find", "recommend",
    "suggest", "give", "show", "tell", "read", "good", "best", "great"
}

\* the scale of the regular expression's repetition {3,}
MinWordLen == 3

RECURSIVE MatchLen(_, _)
\* length of the greedy match of [a-zA-Z]* that starts at position i
MatchLen(s, i) ==
    IF i <= Len(s) /\ IsAsciiLetter(CharAt(s, i)) THEN 1 + MatchLen(s, i + 1) ELSE 0

RECURSIVE FindAll(_, _)
\* re.findall(r'[a-zA-Z]{3,}', s) scanning from position i: the leftmost
\* greedy match is taken and the scan resumes after it; where no match of
\* MinWordLen letters starts, the scan moves on by one character
FindAll(s, i) ==
    IF i > Len(s) THEN <<>>
    ELSE LET n == MatchLen(s, i) IN
         IF n >= MinWordLen
         THEN <<SubSeq(s, i, i + n - 1)>> \o FindAll(s, i + n)
         ELSE FindAll(s, i + 1)

\* as Meaningful, without the stop-word filter
Meaningful_NoFilter(words) == words

\* [w for w in words if w not in STOP_WORDS]
Meaningful(words) ==
    LET NotStop(w) == w \notin STOP_WORDS IN SelectSeq(words, NotStop)

RECURSIVE CounterOf(_, _)
\* Counter(words): the (word, count) items in first-insertion order
CounterOf(words, items) ==
    IF words = <<>> THEN items
    ELSE LET w == Head(words) IN
         IF \E j \in 1..Len(items) : items[j][1] = w
         THEN CounterOf(Tail(words),
                        [j \in 1..Len(items) |->
                           IF items[j][1] = w THEN <<w, items[j][2] + 1>> ELSE items[j]])
         ELSE CounterOf(Tail(words), Append(items, <<w, 1>>))

\* as InsertByCount, with the item going ahead of the items of equal count
InsertByCount_Unstable(sorted, item) ==
    LET ahead == Cardinality({j \in 1..Len(sorted) : sorted[j][2] > item[2]})
    IN  SubSeq(sorted, 1, ahead) \o <<item>> \o SubSeq(sorted, ahead + 1, Len(sorted))

\* one step of the stable descending sort: the item goes behind every item
\* whose count is not smaller
InsertByCount(sorted, item) ==
    LET ahead == Cardinality({j \in 1..Len(sorted) : sorted[j][2] >= item[2]})
    IN  SubSeq(sorted, 1, ahead) \o <<item>> \o SubSeq(sorted, ahead + 1, Len(sorted))

RECURSIVE SortedByCount(_, _)
\* sorted(items, key=itemgetter(1), reverse=True), which is stable
SortedByCount(items, sorted) ==
    IF items = <<>> THEN sorted
    ELSE SortedByCount(Tail(items), InsertByCount(sorted, Head(items)))

\* Counter.most_common(n): heapq.nlargest(n, items, key=count), documented as
\* sorted(items, key=count, reverse=True)[:n]
MostCommon(items, n) == Take(SortedByCount(items, <<>>), n)

\* extract_keywords(text, top_n)
extract_keywords(text, top_n) ==
    LET words == FindAll(Lower(text), 1)
        meaningful == Meaningful(words)
        word_counts == CounterOf(meaningful, <<>>)
        common == MostCommon(word_counts, top_n)
    IN  [j \in 1..Len(common) |-> common[j][1]]

(***************************************************************************)
(* Language detection                                                      *)
(***************************************************************************)
\* LANGUAGE_NAMES, restricted to the codes LangCodes can produce
LANGUAGE_NAMES == [en |-> "English", fr |-> "French", nl |-> "Dutch"]

\* codes langdetect.detect may return; "af" has no entry in LANGUAGE_NAMES
LangCodes == {"en", "fr", "nl", "af"}

\* dict.get(lang_code, lang_code.capitalize())
LanguageName(lang_code) ==
    IF lang_code \in DOMAIN LANGUAGE_NAMES THEN LANGUAGE_NAMES[lang_code]
    ELSE Capitalize(lang_code)

HasLetter(text) == \E i \in 1..Len(text) : IsAsciiLetter(CharAt(text, i))

\* number of words from which the detector's n-gram vote is taken as settled
SettledWords == 4

\* langdetect.detect(text): raises on text without letters; no seed is set
\* (DetectorFactory.seed is never assigned), so on short text the sampled
\* vote may name a different language on every call.  "fail" stands for the
\* exception.
DetectOutcomes(text) ==
    IF ~HasLetter(text) THEN {"fail"}
    ELSE IF Len(FindAll(text, 1)) >= SettledWords THEN {"en"}
    ELSE LangCodes

\* the outcomes of `from langdetect import detect; detect(text)`: the import
\* raises when the package is not installed
ImportAndDetect(text, available) ==
    IF available THEN DetectOutcomes(text) ELSE {"fail"}

\* as detect_language, without the except branch's default
detect_language_NoDefault(outcome) == <<outcome, LanguageName(outcome)>>

\* detect_language(text) given the detector's outcome
detect_language(outcome) ==
    IF outcome = "fail" THEN <<"en", "English">>
    ELSE <<outcome, LanguageName(outcome)>>

(***************************************************************************)
(* Numbers: float32 values as fixed-point integers                         *)
(***************************************************************************)
\* similarity scores are counted in units of 1/ScoreScale
ScoreScale == 1000000

\* distances are counted in units of 1/DistUnit
DistUnit == 10

\* the distance faiss reports for a missing neighbour (FLT_MAX), as the
\* largest number of the model
FLT_MAX == 2147483647

\* number of terms of the series for exp
ExpTerms == 12

RECURSIVE ExpSeries(_, _)
\* Horner form of the series of exp(-r/100), 0 <= r < 100, from term j on
ExpSeries(r, j) ==
    IF j > ExpTerms THEN ScoreScale
    ELSE ScoreScale - (r * ExpSeries(r, j + 1)) \div (100 * j)

\* v * exp(-1), with the products kept below 2^31
MulExpMinusOne(v) ==
    (((v \div 1000) * 367879) + (((v % 1000) * 367879) \div 1000)) \div 1000

RECURSIVE ExpPower(_, _)
\* v * exp(-q); the value underflows to 0 as the float does
ExpPower(v, q) == IF q = 0 \/ v = 0 THEN v ELSE ExpPower(MulExpMinusOne(v), q - 1)

\* the divisor of the similarity transform
SimilarityDivisor == 10

\* as NpExpNeg, without the division by SimilarityDivisor
NpExpNeg_NoDivisor(n) ==
    ExpPower(ExpSeries(((n % DistUnit) * 100) \div DistUnit, 1), n \div DistUnit)

\* float(np.exp(-distance / 10)) for a distance of n/DistUnit
NpExpNeg(n) ==
    LET den == DistUnit * SimilarityDivisor
    IN  ExpPower(ExpSeries(((n % den) * 100) \div den, 1), n \div den)

(***************************************************************************)
(* Vector index (faiss.IndexFlatL2)                                        *)
(***************************************************************************)
\* squared Euclidean distance of two vectors of the same dimension
RECURSIVE L2Sqr(_, _)
L2Sqr(u, v) ==
    IF u = <<>> THEN 0
    ELSE (Head(u) - Head(v)) * (Head(u) - Head(v)) + L2Sqr(Tail(u), Tail(v))

\* as Nearer, with the comparison of the distances turned round
Nearer_Farthest(a, b) == a[1] > b[1] \/ (a[1] = b[1] /\ a[2] < b[2])

\* (distance, id) precedes in the result order: nearer first, ties in scan order
Nearer(a, b) == a[1] < b[1] \/ (a[1] = b[1] /\ a[2] < b[2])

RECURSIVE KSmallest(_, _)
\* the k nearest of a set of (distance, id) pairs in ascending order, padded
\* with (FLT_MAX, -1) when the set runs out
KSmallest(pairs, k) ==
    IF k = 0 THEN <<>>
    ELSE IF pairs = {} THEN <<<<FLT_MAX, -1>>>> \o KSmallest(pairs, k - 1)
    ELSE LET best == CHOOSE p \in pairs : \A o \in pairs \ {p} : Nearer(p, o)
         IN  <<best>> \o KSmallest(pairs \ {best}, k - 1)

\* index.search(x, k) for one query vector: the pair (distances[0], indices[0])
IndexSearch(idx, x, k) ==
    LET found == KSmallest({<<L2Sqr(idx[i], x), i - 1>> : i \in 1..Len(idx)}, k)
    IN  <<[j \in 1..k |-> found[j][1]], [j \in 1..k |-> found[j][2]]>>

\* index.d; an index is kept as the sequence of its vectors
IndexDim(idx) == IF Len(idx) = 0 THEN 0 ELSE Len(idx[1])

\* DataFrame.iloc[i]: a negative position counts from the end
Iloc(df, i) == IF i >= 0 THEN df[i + 1] ELSE df[Len(df) + i + 1]

\* iloc raises IndexError outside -len..len-1
IlocInBounds(df, i) == -Len(df) <= i /\ i < Len(df)

(***************************************************************************)
(* Explanation generator                                                   *)
(***************************************************************************)
\* theme_keywords, in the dictionary's insertion order
theme_keywords == <<
    <<"mystery", <<"mystery", "detective", "crime", "murder", "investigation", "clue", "suspect">>>>,
    <<"romance", <<"love", "romance", "heart", "passion", "relationship", "romantic">>>>,
    <<"adventure", <<"adventure", "journey", "explore", "quest", "expedition", "discover">>>>,
    <<"fantasy", <<"magic", "dragon", "wizard", "fantasy", "mythical", "enchant", "realm">>>>,
    <<"sci-fi", <<"space", "future", "technology", "alien", "dystopia", "robot", "science">>>>,
    <<"horror", <<"horror", "fear", "ghost", "haunted", "terror", "dark", "nightmare">>>>,
    <<"historical", <<"history", "historical", "war", "ancient", "century", "kingdom", "empire">>>>,
    <<"drama", <<"emotional", "family", "life", "struggle", "human", "society", "moral">>>> >>

\* thresholds of the match tiers, in units of 1/ScoreScale
ExcellentAbove == 750000

GoodAbove == 550000

\* number of trigger words a theme needs
ThemeMinMatches == 2

\* number of themes reported
MaxThemes == 3

\* as MatchLevel, with the thresholds included in the upper band
MatchLevel_Inclusive(similarity_score) ==
    IF similarity_score >= ExcellentAbove THEN "Excellent"
    ELSE IF similarity_score >= GoodAbove THEN "Good"
    ELSE "Fair"

\* the three bands of the similarity interpretation
MatchLevel(similarity_score) ==
    IF similarity_score > ExcellentAbove THEN "Excellent"
    ELSE IF similarity_score > GoodAbove THEN "Good"
    ELSE "Fair"

MatchColor(level) ==
    IF level = "Excellent" THEN "#27ae60" ELSE IF level = "Good" THEN "#f39c12" ELSE "#e74c3c"

MatchDesc(level) ==
    IF level = "Excellent" THEN "Very strong semantic alignment with your query"
    ELSE IF level = "Good" THEN "Solid thematic connection to your search"
    ELSE "Some thematic overlap detected"

\* matches = [kw for kw in keywords if kw in combined_text]
ThemeMatches(keywords, combined_text) ==
    LET Hit(kw) == Contains(combined_text, kw) IN SelectSeq(keywords, Hit)

RECURSIVE DetectThemes_OneMatch(_, _)
\* as DetectThemes, with a single trigger word sufficing
DetectThemes_OneMatch(combined_text, t) ==
    IF t > Len(theme_keywords) THEN <<>>
    ELSE (IF Len(ThemeMatches(theme_keywords[t][2], combined_text)) >= 1
          THEN <<Capitalize(theme_keywords[t][1])>> ELSE <<>>)
         \o DetectThemes_OneMatch(combined_text, t + 1)

RECURSIVE DetectThemes(_, _)
\* the loop over theme_keywords.items() from entry t on
DetectThemes(combined_text, t) ==
    IF t > Len(theme_keywords) THEN <<>>
    ELSE (IF Len(ThemeMatches(theme_keywords[t][2], combined_text)) >= ThemeMinMatches
          THEN <<Capitalize(theme_keywords[t][1])>> ELSE <<>>)
         \o DetectThemes(combined_text, t + 1)

\* themes, before the final slice
Themes(query, description) ==
    LET combined_text == Lower(query) \o " " \o description
        themes == DetectThemes(combined_text, 1)
    IN  IF themes = <<>> THEN <<"General Fiction">> ELSE themes

Digits == "0123456789"

RECURSIVE IntToStr(_)
IntToStr(n) ==
    IF n < 10 THEN CharAt(Digits, n + 1)
    ELSE IntToStr(n \div 10) \o CharAt(Digits, (n % 10) + 1)

\* f"{similarity_score * 100:.1f}%"
SimilarityPct(similarity_score) ==
    LET tenths == (similarity_score * 10 + (ScoreScale \div 200)) \div (ScoreScale \div 100)
    IN  IntToStr(tenths \div 10) \o "." \o IntToStr(tenths % 10) \o "%"

\* as CommonKeywords, without the substring test on the description
CommonKeywords_WordsOnly(query_keywords, book_keywords, description) ==
    LET Common(kw) == InSeq(kw, book_keywords) IN SelectSeq(query_keywords, Common)

\* [kw for kw in query_keywords if kw in book_keywords or kw in description]
CommonKeywords(query_keywords, book_keywords, description) ==
    LET Common(kw) == InSeq(kw, book_keywords) \/ Contains(description, kw)
    IN  SelectSeq(query_keywords, Common)

\* as CategoryMatch, with all() in the place of any()
CategoryMatch_All(query_keywords, category) ==
    \A j \in 1..Len(query_keywords) : Contains(category, query_keywords[j])

\* any(kw in category for kw in query_keywords)
CategoryMatch(query_keywords, category) ==
    \E j \in 1..Len(query_keywords) : Contains(category, query_keywords[j])

\* the two templates of category_explanation
CategoryExplanation(category_match, categories) ==
    IF category_match
    THEN "The book's category '" \o categories \o "' aligns with your search"
    ELSE "While categorized as '" \o categories \o "', the themes match your query"

\* _generate_explanation(query, query_keywords, book, similarity_score)
generate_explanation(query, query_keywords, book, similarity_score) ==
    LET description == Lower(book.description)
        category == Lower(book.categories)
        book_keywords == extract_keywords(description, 12)
        common_keywords == CommonKeywords(query_keywords, book_keywords, description)
        category_match == CategoryMatch(query_keywords, category)
        match_level == MatchLevel(similarity_score)
    IN  [common_keywords |-> Take(common_keywords, 5),
         query_keywords |-> Take(query_keywords, 6),
         book_keywords |-> Take(book_keywords, 6),
         category_match |-> category_match,
         category_explanation |-> CategoryExplanation(category_match, book.categories),
         match_level |-> match_level,
         match_color |-> MatchColor(match_level),
         match_desc |-> MatchDesc(match_level),
         themes |-> Take(Themes(query, description), MaxThemes),
         similarity_pct |-> SimilarityPct(similarity_score)]

(***************************************************************************)
(* Corpus, queries and embedders considered                                *)
(***************************************************************************)
\* books_metadata.csv, one row per book; a corpus is its first n rows
Catalog == <<
    [title |-> "The Last Clue", authors |-> "Ann Doyle",
     categories |-> "Detective and mystery stories",
     description |-> "A Detective finds a clue after the murder."],
    [title |-> "Toward the Glove", authors |-> "Unknown",
     categories |-> "Fiction",
     description |-> "Toward the glove of 1920."],
    [title |-> "Dark Empire", authors |-> "Li Wei",
     categories |-> "History",
     description |-> "Love and heart, fear in the dark, war and empire, life and moral."] >>

Descriptions == {Catalog[i].description : i \in 1..Len(Catalog)}

Queries ==
    {"A Thrilling Mystery Story about a Detective", "", "War Heart",
     "Recommend me a good book to read"}

\* largest k passed to recommend_books
MaxK == 4

\* embedding vectors, in units of sqrt(1/DistUnit) per coordinate
Vecs == {<<0, 0>>, <<1, 0>>, <<5, 5>>, <<10, 10>>}

Origin == <<0, 0>>

\* the embedders considered for a corpus: every map of its descriptions to
\* Vecs; only the distances between a query and the books matter, so queries
\* sit at Origin
Embedders(df) ==
    {m \in [{df[i].description : i \in 1..Len(df)} \cup Queries -> Vecs] :
        \A q \in Queries : m[q] = Origin}

\* embed.py: one vector per metadata row, in row order
BuildIndex(df, m) == [i \in 1..Len(df) |-> m[df[i].description]]

(***************************************************************************)
(* Retrieval engine                                                        *)
(***************************************************************************)
\* default of recommend_books' query keyword count (extract_keywords top_n=8)
DefaultTopN == 8

\* distances the index can report for the vectors considered
Distances == {L2Sqr(u, v) : u, v \in Vecs} \cup {FLT_MAX}

\* _generate_explanation is a function of its arguments alone: its values for
\* the corpus rows, the queries and the scores that can occur are tabulated
\* once, and a call with other arguments is computed directly
ExplanationTable ==
    {LET kws == extract_keywords(q, DefaultTopN)
     IN  <<q, kws, Catalog[b], s, generate_explanation(q, kws, Catalog[b], s)>> :
        q \in Queries, b \in 1..Len(Catalog), s \in {NpExpNeg(d) : d \in Distances}}

Explanation(query, query_keywords, book, similarity_score) ==
    LET hits == {e \in ExplanationTable :
                    /\ e[4] = similarity_score
                    /\ e[1] = query
                    /\ e[3] = book
                    /\ e[2] = query_keywords}
    IN  IF hits = {}
        THEN generate_explanation(query, query_keywords, book, similarity_score)
        ELSE (CHOOSE e \in hits : TRUE)[5]

\* exceptions model.encode and index.search can end with: torch reports its
\* runtime failures as RuntimeError, and faiss's C++ exceptions reach Python as
\* RuntimeError
EncodeErrors == {"RuntimeError", "MemoryError"}

SearchErrors == {"RuntimeError"}

\* what the library calls of one recommend_books call can do; the index is
\* not searched ("none") when the embedder has failed
Externals(query, available) ==
    {[detect |-> d, encode |-> stages[1], search |-> stages[2]] :
        d \in ImportAndDetect(query, available),
        stages \in ({"ok"} \X ({"ok"} \cup SearchErrors)) \cup (EncodeErrors \X {"none"})}

NoFault(ext) == ext.encode = "ok" /\ ext.search = "ok"

NotCalled == [detect |-> "none", encode |-> "none", search |-> "none"]

\* extract_keywords(query) with the default top_n; the keywords of the
\* queries considered are tabulated once
QueryKeywordTable == [q \in Queries |-> extract_keywords(q, DefaultTopN)]

KeywordsOfQuery(query) ==
    IF query \in Queries THEN QueryKeywordTable[query]
    ELSE extract_keywords(query, DefaultTopN)

\* the dict appended for the i-th search result
Recommendation(i, book, distance, lang, query, query_keywords) ==
    LET similarity_score == NpExpNeg(distance)
    IN  [rank |-> i,
         title |-> book.title,
         authors |-> book.authors,
         categories |-> book.categories,
         description |-> book.description,
         similarity_score |-> similarity_score,
         distance |-> distance,
         language |-> lang[1],
         language_name |-> lang[2],
         explanation |-> Explanation(query, query_keywords, book, similarity_score)]

\* as Recommendations, with every word of 3 letters taken for a keyword
Recommendations_AllWords(query, lang, distances, indices, k) ==
    LET query_keywords == FindAll(Lower(query), MinWordLen)
    IN  [i \in 1..k |->
           Recommendation(i, Iloc(books_df, indices[i]), distances[i], lang,
                          query, query_keywords)]

\* as Recommendations, with the keywords extracted again for every book, from
\* the query and the book's title
Recommendations_PerBook(query, lang, distances, indices, k) ==
    [i \in 1..k |->
        LET book == Iloc(books_df, indices[i])
        IN  Recommendation(i, book, distances[i], lang, query,
                           extract_keywords(query \o " " \o book.title, DefaultTopN))]

\* the list recommend_books builds from the search result
Recommendations(query, lang, distances, indices, k) ==
    LET query_keywords == KeywordsOfQuery(query)
    IN  [i \in 1..k |->
           Recommendation(i, Iloc(books_df, indices[i]), distances[i], lang,
                          query, query_keywords)]

\* recommend_books(query, k) on the loaded corpus, index and model, given what
\* the detector, the embedder and the index do in this call; nothing is caught
\* after detect_language, and index.search asserts the query's dimension
recommend_books(query, k, ext) ==
    LET lang == detect_language(ext.detect)
        query_embedding == model[query]
        found == IndexSearch(index, query_embedding, k)
    IN  IF ext.encode \in EncodeErrors THEN Raise(ext.encode)
        ELSE IF ext.search \in SearchErrors THEN Raise(ext.search)
        ELSE IF Len(query_embedding) # IndexDim(index) THEN Raise("AssertionError")
        ELSE IF \E i \in 1..k : ~IlocInBounds(books_df, found[2][i])
        THEN Raise("IndexError")
        ELSE Return(Recommendations(query, lang, found[1], found[2], k))

(***************************************************************************)
(* Title lookup: search_by_title and get_book_info                         *)
(***************************************************************************)
\* the dict both lookups build from a row
BookRecord(book) ==
    [title |-> book.title, authors |-> book.authors,
     categories |-> book.categories, description |-> book.description]

\* Series.str.contains(pat) has regex=True by default: pat is compiled as a
\* regular expression.  The patterns considered are made of letters, digits,
\* spaces, '#', '.', '(' and ')'; '.' stands for any
\* character but a newline, and parentheses only group.
RECURSIVE ParensPair(_, _)
\* re.compile accepts the pattern: every '(' has its ')' and no ')' comes first
ParensPair(pat, depth) ==
    IF pat = "" THEN depth = 0
    ELSE IF CharAt(pat, 1) = "(" THEN ParensPair(SubSeq(pat, 2, Len(pat)), depth + 1)
    ELSE IF CharAt(pat, 1) = ")"
         THEN depth > 0 /\ ParensPair(SubSeq(pat, 2, Len(pat)), depth - 1)
    ELSE ParensPair(SubSeq(pat, 2, Len(pat)), depth)

RECURSIVE RegexAtoms(_)
\* the characters of the pattern that consume a character of the text
RegexAtoms(pat) ==
    IF pat = "" THEN ""
    ELSE IF CharAt(pat, 1) \in {"(", ")"} THEN RegexAtoms(SubSeq(pat, 2, Len(pat)))
    ELSE CharAt(pat, 1) \o RegexAtoms(SubSeq(pat, 2, Len(pat)))

\* the atoms match the text from position pos on
RegexMatchAt(atoms, text, pos) ==
    \A i \in 1..Len(atoms) :
        \/ CharAt(atoms, i) = CharAt(text, pos + i - 1)
        \/ CharAt(atoms, i) = "." /\ CharAt(text, pos + i - 1) # "\n"

\* re.search(pat, text) finds a match, for a pattern that compiles
RegexSearch(pat, text) ==
    LET atoms == RegexAtoms(pat)
    IN  \E pos \in 1..(Len(text) - Len(atoms) + 1) : RegexMatchAt(atoms, text, pos)

\* search_by_title(title_query)
search_by_title(title_query) ==
    LET pat == Lower(title_query)
        Mask(book) == RegexSearch(pat, Lower(book.title))
        matching == SelectSeq(books_df, Mask)
        results == [i \in 1..Len(matching) |-> BookRecord(matching[i])]
    IN  IF ~ParensPair(pat, 0) THEN Raise("re.error")
        ELSE Return(Take(results, 5))

\* get_book_info(title)
get_book_info(title) ==
    LET Mask(book) == Lower(book.title) = Lower(title)
        matches == SelectSeq(books_df, Mask)
    IN  IF Len(matches) > 0 THEN Return(BookRecord(matches[1]))
        ELSE Return(None)

(***************************************************************************)
(* Specification of the serving path: recommend_books calls                *)
(***************************************************************************)
\* the files a recommender with these attributes was loaded from
Installed(df, idx, m) ==
    [index_exists |-> TRUE, index |-> idx,
     metadata_exists |-> TRUE, metadata |-> df,
     model_exists |-> TRUE, model |-> m]

\* a recommender object exists: the start has passed and __init__ returned
Ready == op # "start" /\ ~(op = "__init__" /\ exc # "none")

Init ==
    /\ \E n \in 1..Len(Catalog) : books_df = SubSeq(Catalog, 1, n)
    /\ model \in Embedders(books_df)
    /\ index = BuildIndex(books_df, model)
    /\ op = "init"
    /\ args = <<>>
    /\ ret = <<>>
    /\ exc = "none"
    /\ done = FALSE
    /\ langdetect_available \in BOOLEAN
    /\ files = Installed(books_df, index, model)
    /\ externals = NotCalled
    /\ tracker = <<>>
    /\ chatbot = <<>>
    /\ curiosity_engine = <<>>
    /\ locals = <<>>

\* one call of recommend_books, with the library calls doing what ext says
RecommendBooks(query, k, ext) ==
    /\ Ready
    /\ \E result \in {recommend_books(query, k, ext)} :
          ret' = result.ret /\ exc' = result.exc
    /\ op' = "recommend_books"
    /\ args' = [query |-> query, k |-> k]
    /\ externals' = ext
    /\ done' = TRUE
    /\ UNCHANGED <<recommender, environment, locals, services>>

\* the serving path with an embedder and an index that work
Next ==
    \E query \in Queries, k \in 1..MaxK :
        \E ext \in Externals(query, langdetect_available) :
            NoFault(ext) /\ RecommendBooks(query, k, ext)

Spec == Init /\ [][Next]_vars

(***************************************************************************)
(* Specification of extract_keywords as a function of its arguments        *)
(***************************************************************************)
\* pieces of text the inputs are put together from
Fragments == {"cat ", "Dog,", "emu ", "the ", "ab", "e "}

\* largest number of fragments in a text
MaxFrags == 4

\* largest top_n
MaxTopN == 3

RECURSIVE FragTexts(_)
FragTexts(n) ==
    IF n = 0 THEN {""}
    ELSE LET shorter == FragTexts(n - 1)
         IN  shorter \cup {t \o f : t \in shorter, f \in Fragments}

KwTexts == FragTexts(MaxFrags) \cup Queries \cup Descriptions

DefaultModel == [t \in Descriptions \cup Queries |-> Origin]

InitKw ==
    /\ books_df = Catalog
    /\ model = DefaultModel
    /\ index = BuildIndex(Catalog, model)
    /\ op = "extract_keywords"
    /\ args \in [text : KwTexts, top_n : 0..MaxTopN]
    /\ ret = <<>>
    /\ done = FALSE
    /\ exc = "none"
    /\ langdetect_available = TRUE
    /\ files = Installed(books_df, index, model)
    /\ externals = NotCalled
    /\ tracker = <<>>
    /\ chatbot = <<>>
    /\ curiosity_engine = <<>>
    /\ locals = <<>>

ExtractKeywords ==
    /\ op = "extract_keywords"
    /\ ~done
    /\ ret' = extract_keywords(args.text, args.top_n)
    /\ done' = TRUE
    /\ UNCHANGED <<recommender, environment, op, args, exc, externals, locals, services>>

NextKw == ExtractKeywords

SpecKw == InitKw /\ [][NextKw]_vars

(***************************************************************************)
(* Specification of _generate_explanation as a function of its arguments   *)
(***************************************************************************)
ExplainQueries ==
    Queries \cup {"magic dragon quest journey", "Space robots, Family life",
                  "love heart fear dark war empire life moral", "Ancient history of war",
                  "magic dragon quest journey space robots family empire"}

\* similarity scores passed in, on and around the tier thresholds
SampleScores ==
    {0, 135335, 549999, 550000, 550001, 560000, 606531, 749999, 750000, 750001,
     760000, 990050, 1000000}

InitExplain ==
    /\ books_df = Catalog
    /\ model = DefaultModel
    /\ index = BuildIndex(Catalog, model)
    /\ op = "generate_explanation"
    /\ args \in [query : ExplainQueries, book : {Catalog[b] : b \in 1..Len(Catalog)},
                 similarity_score : SampleScores]
    /\ ret = <<>>
    /\ done = FALSE
    /\ exc = "none"
    /\ langdetect_available = TRUE
    /\ files = Installed(books_df, index, model)
    /\ externals = NotCalled
    /\ tracker = <<>>
    /\ chatbot = <<>>
    /\ curiosity_engine = <<>>
    /\ locals = <<>>

GenerateExplanation ==
    /\ op = "generate_explanation"
    /\ ~done
    /\ ret' = generate_explanation(args.query, extract_keywords(args.query, DefaultTopN),
                                   args.book, args.similarity_score)
    /\ done' = TRUE
    /\ UNCHANGED <<recommender, environment, op, args, exc, externals, locals, services>>

NextExplain == GenerateExplanation

SpecExplain == InitExplain /\ [][NextExplain]_vars

(***************************************************************************)
(* Specification of the title lookups                                      *)
(***************************************************************************)
\* rows the title corpora are taken from; six titles contain 'mockingbird',
\* two of them are equal but for the case
TitlePool == <<
    [title |-> "To Kill a Mockingbird", authors |-> "Harper Lee",
     categories |-> "Fiction", description |-> "A novel."],
    [title |-> "Go Set a Watchman", authors |-> "Harper Lee",
     categories |-> "Fiction", description |-> "A novel."],
    [title |-> "Mockingbird", authors |-> "Ann Doyle",
     categories |-> "Fiction", description |-> "A novel."],
    [title |-> "The MOCKINGBIRD Years", authors |-> "Li Wei",
     categories |-> "History", description |-> "A novel."],
    [title |-> "Mockingbird (Annotated)", authors |-> "Unknown",
     categories |-> "Fiction", description |-> "A novel."],
    [title |-> "Mr. Mockingbird", authors |-> "Unknown",
     categories |-> "Fiction", description |-> "A novel."],
    [title |-> "MOCKINGBIRD", authors |-> "Li Wei",
     categories |-> "Poetry", description |-> "A novel."] >>

\* the rows of pool at the positions in keep, in the pool's order
RowsAt(pool, keep) ==
    LET Upto[i \in 0..Len(pool)] ==
            IF i = 0 THEN <<>>
            ELSE IF i \in keep THEN Append(Upto[i - 1], pool[i])
            ELSE Upto[i - 1]
    IN  Upto[Len(pool)]

TitleCorpora == {RowsAt(TitlePool, keep) : keep \in SUBSET (1..Len(TitlePool))}

\* arguments of search_by_title and get_book_info
TitleQueries ==
    {"mockingbird", "Mockingbird", "king", "Watch", "", "r. m", "zebra", ".", "("}

TitleModel == [t \in {"A novel."} \cup Queries |-> Origin]

InitTitle ==
    /\ books_df \in TitleCorpora
    /\ model = TitleModel
    /\ index = BuildIndex(books_df, model)
    /\ op = "init"
    /\ args = <<>>
    /\ ret = <<>>
    /\ exc = "none"
    /\ done = FALSE
    /\ langdetect_available = TRUE
    /\ files = Installed(books_df, index, model)
    /\ externals = NotCalled
    /\ tracker = <<>>
    /\ chatbot = <<>>
    /\ curiosity_engine = <<>>
    /\ locals = <<>>

SearchByTitle(title_query) ==
    /\ Ready
    /\ \E result \in {search_by_title(title_query)} :
          ret' = result.ret /\ exc' = result.exc
    /\ op' = "search_by_title"
    /\ args' = [title_query |-> title_query]
    /\ done' = TRUE
    /\ UNCHANGED <<recommender, environment, externals, locals, services>>

GetBookInfo(title) ==
    /\ Ready
    /\ \E result \in {get_book_info(title)} :
          ret' = result.ret /\ exc' = result.exc
    /\ op' = "get_book_info"
    /\ args' = [title |-> title]
    /\ done' = TRUE
    /\ UNCHANGED <<recommender, environment, externals, locals, services>>

NextTitle ==
    \/ \E title_query \in TitleQueries : SearchByTitle(title_query)
    \/ \E title \in TitleQueries : GetBookInfo(title)

SpecTitle == InitTitle /\ [][NextTitle]_vars

(***************************************************************************)
(* Specification of the start: BookRecommender() in app.py, then calls     *)
(***************************************************************************)
\* an embedder of the index's dimension and one of another dimension
StartupModel ==
    [t \in Descriptions \cup Queries |->
        IF t = Catalog[1].description THEN <<1, 0>>
        ELSE IF t = Catalog[2].description THEN <<5, 5>>
        ELSE IF t = Catalog[3].description THEN <<10, 10>>
        ELSE Origin]

WideModel == [t \in Descriptions \cup Queries |-> <<0, 0, 0>>]

\* the files that may be found at index_path, metadata_path and model_name:
\* each present or missing, of sizes and dimensions that agree or not
StartupFiles ==
    [index_exists : BOOLEAN,
     index : {BuildIndex(SubSeq(Catalog, 1, n), m) :
                 n \in 1..Len(Catalog), m \in {StartupModel, WideModel}},
     metadata_exists : BOOLEAN,
     metadata : {SubSeq(Catalog, 1, n) : n \in 1..2},
     model_exists : BOOLEAN,
     model : {StartupModel, WideModel}]

InitStartup ==
    /\ books_df = <<>>
    /\ index = <<>>
    /\ model = <<>>
    /\ op = "start"
    /\ args = <<>>
    /\ ret = <<>>
    /\ exc = "none"
    /\ done = FALSE
    /\ langdetect_available = TRUE
    /\ files \in StartupFiles
    /\ externals = NotCalled
    /\ tracker = <<>>
    /\ chatbot = <<>>
    /\ curiosity_engine = <<>>
    /\ locals = <<>>

\* BookRecommender.__init__: the three loads in order; the exception of a load
\* that fails leaves no object (app.py prints and re-raises)
Construct ==
    /\ op = "start"
    /\ op' = "__init__"
    /\ done' = TRUE
    /\ IF ~files.index_exists
       THEN exc' = "RuntimeError" /\ UNCHANGED recommender
       ELSE IF ~files.metadata_exists
       THEN exc' = "FileNotFoundError" /\ UNCHANGED recommender
       ELSE IF ~files.model_exists
       THEN exc' = "OSError" /\ UNCHANGED recommender
       ELSE /\ exc' = "none"
            /\ index' = files.index
            /\ books_df' = files.metadata
            /\ model' = files.model
    /\ UNCHANGED <<args, ret, environment, externals, locals, services>>

NextStartup ==
    \/ Construct
    \/ \E query \in Queries, k \in 1..MaxK :
          \E ext \in Externals(query, langdetect_available) :
              RecommendBooks(query, k, ext)

SpecStartup == InitStartup /\ [][NextStartup]_vars

(***************************************************************************)
(* Specification of embed.py: generate_embeddings                          *)
(***************************************************************************)
\* descriptions encoded per call of model.encode
batch_size == 32

\* largest cleaned dataset
MaxEmbedRows == 70

\* the j-th row of the cleaned dataset; descriptions differ from row to row
DatasetRow(j) ==
    [title |-> "Book " \o IntToStr(j), authors |-> "Unknown",
     categories |-> "Fiction", description |-> "Description " \o IntToStr(j)]

Dataset(n) == [j \in 1..n |-> DatasetRow(j)]

\* an embedder that tells the descriptions apart
DatasetVector(j) == <<j % 10, j \div 10>>

DatasetModel(n) ==
    [t \in {DatasetRow(j).description : j \in 1..n} |->
        DatasetVector(CHOOSE j \in 1..n : DatasetRow(j).description = t)]

NoFiles ==
    [index_exists |-> FALSE, index |-> <<>>,
     metadata_exists |-> FALSE, metadata |-> <<>>,
     model_exists |-> TRUE, model |-> <<>>]

\* as Batch, without the last batch when it is not full
Batch_FullOnly(descriptions, i) ==
    IF i + batch_size <= Len(descriptions) THEN SubSeq(descriptions, i + 1, i + batch_size)
    ELSE <<>>

\* descriptions[i:i+batch_size]: a slice ends where the list ends
Batch(descriptions, i) ==
    SubSeq(descriptions, i + 1,
           IF i + batch_size <= Len(descriptions) THEN i + batch_size
           ELSE Len(descriptions))

\* model.encode(batch): one vector per text, in order
Encode(m, batch) == [j \in 1..Len(batch) |-> m[batch[j]]]

InitEmbed ==
    /\ books_df = <<>>
    /\ index = <<>>
    /\ \E n \in 0..MaxEmbedRows :
          /\ model = DatasetModel(n)
          /\ locals = [pc |-> "batches", df |-> Dataset(n),
                       descriptions |-> [j \in 1..n |-> Dataset(n)[j].description],
                       i |-> 0, embeddings |-> <<>>]
    /\ op = "generate_embeddings"
    /\ args = <<>>
    /\ ret = <<>>
    /\ exc = "none"
    /\ done = FALSE
    /\ langdetect_available = TRUE
    /\ files = NoFiles
    /\ externals = NotCalled
    /\ tracker = <<>>
    /\ chatbot = <<>>
    /\ curiosity_engine = <<>>

\* one pass of the loop over range(0, len(descriptions), batch_size)
EncodeBatch ==
    /\ locals.pc = "batches"
    /\ locals.i < Len(locals.descriptions)
    /\ locals' = [locals EXCEPT
                    !.embeddings = @ \o Encode(model, Batch(locals.descriptions, locals.i)),
                    !.i = @ + batch_size]
    /\ UNCHANGED <<recommender, op, args, ret, exc, done, environment, externals, services>>

\* after the loop: the index is made of the embeddings and written with the
\* metadata; embeddings.shape[1] raises IndexError when there is no row
BuildAndSave ==
    /\ locals.pc = "batches"
    /\ locals.i >= Len(locals.descriptions)
    /\ locals' = [locals EXCEPT !.pc = "done"]
    /\ done' = TRUE
    /\ IF Len(locals.embeddings) = 0
       THEN exc' = "IndexError" /\ UNCHANGED files
       ELSE /\ exc' = "none"
            /\ files' = [index_exists |-> TRUE, index |-> locals.embeddings,
                         metadata_exists |-> TRUE, metadata |-> locals.df,
                         model_exists |-> TRUE, model |-> model]
    /\ UNCHANGED <<recommender, op, args, ret, langdetect_available, externals, services>>

NextEmbed == EncodeBatch \/ BuildAndSave

SpecEmbed == InitEmbed /\ [][NextEmbed]_vars

(***************************************************************************)
(* Specification of concurrent calls on one recommender, without locks     *)
(***************************************************************************)
\* threads calling at the same time
NumThreads == 2

Threads == 1..NumThreads

\* the calls a thread may make
ThreadCalls ==
    {[op |-> "recommend_books", args |-> [query |-> "War Heart", k |-> 2]],
     [op |-> "search_by_title", args |-> [title_query |-> "the"]],
     [op |-> "get_book_info", args |-> [title |-> "dark empire"]],
     [op |-> "get_book_info", args |-> [title |-> "Missing"]]}

InitThreads ==
    /\ books_df = Catalog
    /\ model = StartupModel
    /\ index = BuildIndex(books_df, model)
    /\ op = "threads"
    /\ args = <<>>
    /\ ret = <<>>
    /\ exc = "none"
    /\ done = FALSE
    /\ langdetect_available = TRUE
    /\ files = Installed(books_df, index, model)
    /\ externals = NotCalled
    /\ tracker = <<>>
    /\ chatbot = <<>>
    /\ curiosity_engine = <<>>
    /\ \E calls \in [Threads -> ThreadCalls] :
          locals = [t \in Threads |->
                       [pc |-> "start", op |-> calls[t].op, args |-> calls[t].args,
                        tmp |-> <<>>, ret |-> <<>>, exc |-> "none"]]

\* thread t is at pc in a call of method
At(t, method, pc) == locals[t].op = method /\ locals[t].pc = pc

\* thread t moves on; only its own locals change
Step(t, pc, tmp) ==
    /\ locals' = [locals EXCEPT ![t].pc = pc, ![t].tmp = tmp]
    /\ UNCHANGED <<recommender, op, args, ret, exc, done, environment, externals, services>>

\* thread t ends its call
Finish(t, result) ==
    /\ locals' = [locals EXCEPT ![t].pc = "done", ![t].tmp = <<>>,
                                ![t].ret = result.ret, ![t].exc = result.exc]
    /\ UNCHANGED <<recommender, op, args, ret, exc, done, environment, externals, services>>

\* recommend_books: lang_code, lang_name = detect_language(query)
DetectLanguage(t) ==
    /\ At(t, "recommend_books", "start")
    /\ \E outcome \in ImportAndDetect(locals[t].args.query, langdetect_available) :
          Step(t, "encode", [lang |-> detect_language(outcome)])

\* recommend_books: query_embedding = self.model.encode([query])
EncodeQuery(t) ==
    /\ At(t, "recommend_books", "encode")
    /\ Step(t, "search", [lang |-> locals[t].tmp.lang,
                          query_embedding |-> model[locals[t].args.query]])

\* recommend_books: distances, indices = self.index.search(query_embedding, k)
SearchIndex(t) ==
    /\ At(t, "recommend_books", "search")
    /\ IF Len(locals[t].tmp.query_embedding) # IndexDim(index)
       THEN Finish(t, Raise("AssertionError"))
       ELSE Step(t, "build",
                 [lang |-> locals[t].tmp.lang,
                  found |-> IndexSearch(index, locals[t].tmp.query_embedding,
                                        locals[t].args.k)])

\* recommend_books: the loop over the search result
BuildRecommendations(t) ==
    /\ At(t, "recommend_books", "build")
    /\ LET found == locals[t].tmp.found
           k == locals[t].args.k
       IN  IF \E i \in 1..k : ~IlocInBounds(books_df, found[2][i])
           THEN Finish(t, Raise("IndexError"))
           ELSE Finish(t, Return(Recommendations(locals[t].args.query, locals[t].tmp.lang,
                                                 found[1], found[2], k)))

\* as InfoMask, with the titles of the table itself put in lower case
InfoMask_InPlace(t) ==
    /\ At(t, "get_book_info", "start")
    /\ books_df' = [i \in 1..Len(books_df) |->
                       [books_df[i] EXCEPT !.title = Lower(books_df[i].title)]]
    /\ locals' = [locals EXCEPT
                    ![t].pc = "pick",
                    ![t].tmp = [i \in 1..Len(books_df) |->
                                   Lower(books_df[i].title) = Lower(locals[t].args.title)]]
    /\ UNCHANGED <<index, model, op, args, ret, exc, done, environment, externals, services>>

\* search_by_title: mask = self.books_df['title'].str.lower().str.contains(...)
TitleMask(t) ==
    /\ At(t, "search_by_title", "start")
    /\ LET pat == Lower(locals[t].args.title_query)
       IN  IF ~ParensPair(pat, 0) THEN Finish(t, Raise("re.error"))
           ELSE Step(t, "collect",
                     [i \in 1..Len(books_df) |-> RegexSearch(pat, Lower(books_df[i].title))])

\* the rows of the table a mask selects
Masked(df, mask) == RowsAt(df, {i \in 1..Len(df) : i <= Len(mask) /\ mask[i]})

\* search_by_title: the loop over self.books_df[mask] and results[:5]
CollectTitles(t) ==
    /\ At(t, "search_by_title", "collect")
    /\ LET matching == Masked(books_df, locals[t].tmp)
       IN  Finish(t, Return(Take([i \in 1..Len(matching) |-> BookRecord(matching[i])], 5)))

\* get_book_info: mask = self.books_df['title'].str.lower() == title.lower()
InfoMask(t) ==
    /\ At(t, "get_book_info", "start")
    /\ Step(t, "pick",
            [i \in 1..Len(books_df) |-> Lower(books_df[i].title) = Lower(locals[t].args.title)])

\* get_book_info: matches = self.books_df[mask] and the first of them
PickFirst(t) ==
    /\ At(t, "get_book_info", "pick")
    /\ LET matches == Masked(books_df, locals[t].tmp)
       IN  IF Len(matches) > 0 THEN Finish(t, Return(BookRecord(matches[1])))
           ELSE Finish(t, Return(None))

NextThreads ==
    \E t \in Threads :
        \/ DetectLanguage(t)
        \/ EncodeQuery(t)
        \/ SearchIndex(t)
        \/ BuildRecommendations(t)
        \/ TitleMask(t)
        \/ CollectTitles(t)
        \/ InfoMask(t)
        \/ PickFirst(t)

SpecThreads == InitThreads /\ [][NextThreads]_vars

(***************************************************************************)
(* Interaction tracker (interaction_tracker.py)                            *)
(***************************************************************************)
\* the lists of data/interactions.json
ListNames ==
    {"searches", "mood_selections", "surprise_clicks", "chatbot_conversations",
     "book_views", "journey_starts"}

EmptyData == [name \in ListNames |-> <<>>]

\* the file holds the JSON text of data, or, between open(path, 'w') and the
\* end of json.dump, text that is cut off
StoredFile(data) == [complete |-> TRUE, data |-> data]

TruncatedFile == [complete |-> FALSE, data |-> EmptyData]

\* as read_data, with the lists started afresh on every read
read_data_Fresh(file) == EmptyData

\* _read_data: json.load raises JSONDecodeError on cut-off text, and the
\* except branch returns empty lists
read_data(file) == IF file.complete THEN file.data ELSE EmptyData

\* the list a log_* method appends to
LogList(method) ==
    CASE method = "log_search" -> "searches"
      [] method = "log_mood_selection" -> "mood_selections"
      [] method = "log_surprise_click" -> "surprise_clicks"
      [] method = "log_chatbot_message" -> "chatbot_conversations"
      [] method = "log_book_view" -> "book_views"
      [] method = "log_journey_start" -> "journey_starts"

\* the dict a log_* method appends; now stands for datetime.now().isoformat().
\* A bot response is kept whole: its cut to 200 characters is not modelled.
LogEntry(method, a, now) ==
    CASE method = "log_search" ->
            [query |-> a.query, language |-> a.language, num_results |-> a.num_results,
             result_titles |-> [i \in 1..Len(a.results) |-> a.results[i].title],
             timestamp |-> now]
      [] method = "log_mood_selection" -> [mood |-> a.mood, timestamp |-> now]
      [] method = "log_surprise_click" -> [timestamp |-> now]
      [] method = "log_chatbot_message" ->
            [user_message |-> a.user_message, bot_response |-> a.bot_response,
             language |-> a.language, timestamp |-> now]
      [] method = "log_book_view" ->
            [title |-> a.book_title, source |-> a.source, timestamp |-> now]
      [] method = "log_journey_start" ->
            [title |-> a.journey_data.title, from_area |-> a.journey_data.from_area,
             to_area |-> a.journey_data.to_area,
             num_steps |-> Len(a.journey_data.steps), timestamp |-> now]

\* data[list].append(entry)
Appended(data, method, a, now) ==
    [data EXCEPT ![LogList(method)] = Append(@, LogEntry(method, a, now))]

\* get_mood_distribution counts in a dict, which keeps the order of first
\* insertion; max(moods, key=moods.get) is the first mood of the largest count
TopMood(mood_selections) ==
    LET Count(m) == Cardinality({i \in 1..Len(mood_selections) : mood_selections[i].mood = m})
        First(m) == CHOOSE i \in 1..Len(mood_selections) :
                        /\ mood_selections[i].mood = m
                        /\ \A j \in 1..(i - 1) : mood_selections[j].mood # m
        moods == {mood_selections[i].mood : i \in 1..Len(mood_selections)}
    IN  IF moods = {} THEN "N/A"
        ELSE CHOOSE m \in moods :
                \A o \in moods \ {m} :
                    Count(m) > Count(o) \/ (Count(m) = Count(o) /\ First(m) < First(o))

\* get_summary_stats, from its own read and the read of get_mood_distribution
summary_stats(data, mood_data) ==
    [total_searches |-> Len(data.searches),
     total_chats |-> Len(data.chatbot_conversations),
     total_moods |-> Len(data.mood_selections),
     total_surprises |-> Len(data.surprise_clicks),
     unique_languages |->
        Cardinality({data.searches[i].language : i \in 1..Len(data.searches)}
                    \cup {data.chatbot_conversations[i].language :
                             i \in 1..Len(data.chatbot_conversations)}),
     top_mood |-> TopMood(mood_data.mood_selections),
     total_interactions |->
        Len(data.searches) + Len(data.mood_selections)
        + Len(data.surprise_clicks) + Len(data.chatbot_conversations)]

\* a tracker whose file was created by _ensure_file; lock is the set of the
\* threads that are inside `with self._lock`
NewTracker == [lock |-> {}, file |-> StoredFile(EmptyData), clock |-> 0]

\* log_* calls made by the app
LogCalls ==
    {[op |-> "log_search",
      args |-> [query |-> "War Heart", language |-> "nl", num_results |-> 1,
                results |-> <<[title |-> "Dark Empire"]>>]],
     [op |-> "log_mood_selection", args |-> [mood |-> "Happy"]],
     [op |-> "log_mood_selection", args |-> [mood |-> "Dark"]],
     [op |-> "log_surprise_click", args |-> <<>>],
     [op |-> "log_chatbot_message",
      args |-> [user_message |-> "thanks", bot_response |-> "You're welcome!",
                language |-> "en"]],
     [op |-> "log_book_view", args |-> [book_title |-> "Dark Empire", source |-> "search"]],
     [op |-> "log_journey_start",
      args |-> [journey_data |-> [title |-> "From History to Fiction",
                                  from_area |-> "History", to_area |-> "Fiction",
                                  steps |-> <<"Dark Empire", "Toward the Glove", "The Last Clue">>]]]}

(***************************************************************************)
(* Specification of the tracker called from one thread                     *)
(***************************************************************************)
\* largest number of log_* calls
MaxLogCalls == 3

InitStore ==
    /\ books_df = Catalog
    /\ model = DefaultModel
    /\ index = BuildIndex(Catalog, model)
    /\ op = "init"
    /\ args = <<>>
    /\ ret = <<>>
    /\ exc = "none"
    /\ done = FALSE
    /\ langdetect_available = TRUE
    /\ files = Installed(books_df, index, model)
    /\ externals = NotCalled
    /\ locals = <<>>
    /\ tracker = NewTracker
    /\ chatbot = <<>>
    /\ curiosity_engine = <<>>

\* a log_* method: under the lock, read the file, append, write the file
Log(call) ==
    /\ tracker.clock < MaxLogCalls
    /\ tracker.lock = {}
    /\ tracker' = [tracker EXCEPT
                     !.file = StoredFile(Appended(read_data(tracker.file), call.op,
                                                  call.args, tracker.clock)),
                     !.clock = @ + 1]
    /\ op' = call.op
    /\ args' = call.args
    /\ ret' = None
    /\ exc' = "none"
    /\ done' = TRUE
    /\ UNCHANGED <<recommender, environment, externals, locals, clients>>

\* get_summary_stats
GetSummaryStats ==
    /\ op' = "get_summary_stats"
    /\ args' = <<>>
    /\ ret' = summary_stats(read_data(tracker.file), read_data(tracker.file))
    /\ exc' = "none"
    /\ done' = TRUE
    /\ UNCHANGED <<recommender, environment, externals, locals, services>>

NextStore ==
    \/ \E call \in LogCalls : Log(call)
    \/ GetSummaryStats

SpecStore == InitStore /\ [][NextStore]_vars

(***************************************************************************)
(* Specification of the tracker called from several threads                *)
(***************************************************************************)
\* threads calling the tracker at the same time
NumClients == 3

Clients == 1..NumClients

\* the calls a thread may make: one of each log_* method, or the summary
LoggingCalls ==
    {call \in LogCalls : call.op = "log_mood_selection" => call.args.mood = "Happy"}
    \cup {[op |-> "get_summary_stats", args |-> <<>>]}

InitLogging ==
    /\ books_df = Catalog
    /\ model = DefaultModel
    /\ index = BuildIndex(Catalog, model)
    /\ op = "threads"
    /\ args = <<>>
    /\ ret = <<>>
    /\ exc = "none"
    /\ done = FALSE
    /\ langdetect_available = TRUE
    /\ files = Installed(books_df, index, model)
    /\ externals = NotCalled
    /\ tracker = NewTracker
    /\ chatbot = <<>>
    /\ curiosity_engine = <<>>
    /\ \E calls \in [Clients -> LoggingCalls] :
          locals = [t \in Clients |->
                       [pc |-> "start", op |-> calls[t].op, args |-> calls[t].args,
                        data |-> <<>>, now |-> -1, ret |-> <<>>]]

\* thread t is at pc in a log_* method
Logging(t, pc) == locals[t].op # "get_summary_stats" /\ locals[t].pc = pc

\* as Acquire, entering without the lock
Acquire_NoLock(t) ==
    /\ Logging(t, "start")
    /\ locals' = [locals EXCEPT ![t].pc = "read"]
    /\ UNCHANGED <<recommender, op, args, ret, exc, done, environment, externals, services>>

\* with self._lock: enter
Acquire(t) ==
    /\ Logging(t, "start")
    /\ tracker.lock = {}
    /\ tracker' = [tracker EXCEPT !.lock = @ \cup {t}]
    /\ locals' = [locals EXCEPT ![t].pc = "read"]
    /\ UNCHANGED <<recommender, op, args, ret, exc, done, environment, externals, clients>>

\* data = self._read_data(); data[list].append({..., 'timestamp': now})
ReadAndAppend(t) ==
    /\ Logging(t, "read")
    /\ locals' = [locals EXCEPT
                    ![t].pc = "open",
                    ![t].now = tracker.clock,
                    ![t].data = Appended(read_data(tracker.file), locals[t].op,
                                         locals[t].args, tracker.clock)]
    /\ tracker' = [tracker EXCEPT !.clock = @ + 1]
    /\ UNCHANGED <<recommender, op, args, ret, exc, done, environment, externals, clients>>

\* _write_data: open(self.data_path, 'w') empties the file
OpenForWrite(t) ==
    /\ Logging(t, "open")
    /\ tracker' = [tracker EXCEPT !.file = TruncatedFile]
    /\ locals' = [locals EXCEPT ![t].pc = "dump"]
    /\ UNCHANGED <<recommender, op, args, ret, exc, done, environment, externals, clients>>

\* _write_data: json.dump and the close of the file
DumpAndClose(t) ==
    /\ Logging(t, "dump")
    /\ tracker' = [tracker EXCEPT !.file = StoredFile(locals[t].data)]
    /\ locals' = [locals EXCEPT ![t].pc = "release"]
    /\ UNCHANGED <<recommender, op, args, ret, exc, done, environment, externals, clients>>

\* with self._lock: leave, and the method returns
Release(t) ==
    /\ Logging(t, "release")
    /\ tracker' = [tracker EXCEPT !.lock = @ \ {t}]
    /\ locals' = [locals EXCEPT ![t].pc = "done"]
    /\ UNCHANGED <<recommender, op, args, ret, exc, done, environment, externals, clients>>

\* get_summary_stats: data = self._read_data(), taken without the lock
StatsRead(t) ==
    /\ locals[t].op = "get_summary_stats"
    /\ locals[t].pc = "start"
    /\ locals' = [locals EXCEPT ![t].pc = "moods", ![t].data = read_data(tracker.file)]
    /\ UNCHANGED <<recommender, op, args, ret, exc, done, environment, externals, services>>

\* get_summary_stats: moods = self.get_mood_distribution(), a second read, and
\* the dict returned
StatsReturn(t) ==
    /\ locals[t].op = "get_summary_stats"
    /\ locals[t].pc = "moods"
    /\ locals' = [locals EXCEPT
                    ![t].pc = "done",
                    ![t].ret = summary_stats(locals[t].data, read_data(tracker.file))]
    /\ UNCHANGED <<recommender, op, args, ret, exc, done, environment, externals, services>>

NextLogging ==
    \E t \in Clients :
        \/ Acquire(t)
        \/ ReadAndAppend(t)
        \/ OpenForWrite(t)
        \/ DumpAndClose(t)
        \/ Release(t)
        \/ StatsRead(t)
        \/ StatsReturn(t)

SpecLogging == InitLogging /\ [][NextLogging]_vars

(***************************************************************************)
(* Chatbot (chatbot.py): intent, book number                               *)
(***************************************************************************)
\* sub occurs in text at position i
OccursAt(text, sub, i) ==
    i >= 1 /\ i + Len(sub) - 1 <= Len(text) /\ SubSeq(text, i, i + Len(sub) - 1) = sub

IsDigit(c) == \E d \in 1..Len(Digits) : CharAt(Digits, d) = c

\* regex \s, for the characters that occur in messages
IsSpace(c) == c \in {" ", "\t", "\n"}

\* a digit stands at position i of text: where \d+ can match
DigitAt(text, i) == i >= 1 /\ i <= Len(text) /\ IsDigit(CharAt(text, i))

RECURSIVE Strip(_)
\* str.strip()
Strip(text) ==
    IF text = "" THEN ""
    ELSE IF IsSpace(CharAt(text, 1)) THEN Strip(SubSeq(text, 2, Len(text)))
    ELSE IF IsSpace(CharAt(text, Len(text))) THEN Strip(SubSeq(text, 1, Len(text) - 1))
    ELSE text

\* len(text.split()): the runs of characters that are not whitespace
WordCount(text) ==
    Cardinality({i \in 1..Len(text) :
                    /\ ~IsSpace(CharAt(text, i))
                    /\ (i = 1 \/ IsSpace(CharAt(text, i - 1)))})

\* any(w in msg for w in words)
AnyIn(words, msg) == \E w \in words : Contains(msg, w)

GreetingWords ==
    {"hello", "hi", "hey", "good morning", "good evening", "howdy", "greetings",
     "namaste", "hola", "bonjour"}

HelpWords ==
    {"help", "what can you do", "how to use", "features", "what do you do",
     "how does this work"}

ThanksWords ==
    {"thank", "thanks", "thx", "appreciate", "great", "awesome", "wonderful",
     "perfect", "nice"}

\* the alternatives first|1st|...|5th of the detail patterns
OrdinalWords ==
    {"first", "1st", "second", "2nd", "third", "3rd", "fourth", "4th", "fifth", "5th"}

\* the regex (a1|a2|...).*(b1|b2|...|\d+) finds a match in msg: one of firsts,
\* or a digit when firstDigit, and after its end, on the same line, one of
\* seconds, or a digit when secondDigit
FindsThen(msg, firsts, firstDigit, seconds, secondDigit) ==
    \E i \in 1..Len(msg) :
        \E len \in {Len(a) : a \in {a \in firsts : OccursAt(msg, a, i)}}
                   \cup (IF firstDigit /\ DigitAt(msg, i) THEN {1} ELSE {}) :
            \E j \in (i + len)..Len(msg) :
                /\ \A n \in i..(j - 1) : CharAt(msg, n) # "\n"
                /\ \/ \E b \in seconds : OccursAt(msg, b, j)
                   \/ secondDigit /\ DigitAt(msg, j)

RECURSIVE SkipSpaces(_, _)
\* the position after the whitespace that begins at i
SkipSpaces(text, i) ==
    IF i <= Len(text) /\ IsSpace(CharAt(text, i)) THEN SkipSpaces(text, i + 1) ELSE i

\* the position of the digits that #(\d+)|number\s+(\d+)|no\.?\s*(\d+) captures
\* when it matches at position i, and 0 when it does not match there; with
\* oneSpace the middle alternative is "number \d+", as in the detail pattern
NumberRefAt(msg, i, oneSpace) ==
    LET afterNumber == IF oneSpace
                       THEN (IF OccursAt(msg, " ", i + 6) THEN i + 7 ELSE i + 6)
                       ELSE SkipSpaces(msg, i + 6)
    IN  IF OccursAt(msg, "#", i) /\ DigitAt(msg, i + 1) THEN i + 1
        ELSE IF /\ OccursAt(msg, "number", i)
                /\ afterNumber > i + 6
                /\ DigitAt(msg, afterNumber)
        THEN afterNumber
        ELSE IF OccursAt(msg, "no", i)
        THEN LET afterDot == IF OccursAt(msg, ".", i + 2) THEN i + 3 ELSE i + 2
             IN  IF DigitAt(msg, SkipSpaces(msg, afterDot)) THEN SkipSpaces(msg, afterDot)
                 ELSE IF DigitAt(msg, SkipSpaces(msg, i + 2)) THEN SkipSpaces(msg, i + 2)
                 ELSE 0
        ELSE 0

\* the five detail_patterns, each tried with re.search
IsDetail(msg) ==
    \/ FindsThen(msg, {"tell me more", "more about", "details", "info", "information"},
                 FALSE, OrdinalWords, TRUE)
    \/ FindsThen(msg, OrdinalWords, TRUE,
                 {"one", "book", "option", "choice", "recommendation"}, FALSE)
    \/ FindsThen(msg, {"what is", "what's", "describe", "explain"}, FALSE, OrdinalWords, TRUE)
    \/ \E i \in 1..Len(msg) : NumberRefAt(msg, i, TRUE) # 0
    \/ AnyIn({"tell me more", "more details", "elaborate", "expand"}, msg)

RecommendWords ==
    {"recommend", "suggest", "find", "search", "look", "want", "need", "give me",
     "show me", "any", "book about", "books about", "novel", "story", "read", "genre",
     "mystery", "romance", "fantasy", "thriller", "horror", "adventure", "sci-fi",
     "science fiction", "historical", "comedy", "drama", "fiction", "non-fiction",
     "biography", "autobiography"}

\* _detect_intent(message)
detect_intent(message) ==
    LET msg == Strip(Lower(message))
    IN  IF AnyIn(GreetingWords, msg) THEN "greeting"
        ELSE IF AnyIn(HelpWords, msg) THEN "help"
        ELSE IF AnyIn(ThanksWords, msg) THEN "thanks"
        ELSE IF IsDetail(msg) THEN "detail"
        ELSE IF AnyIn(RecommendWords, msg) THEN "recommend"
        ELSE IF WordCount(msg) >= 3 THEN "recommend"
        ELSE "general"

\* the ordinals dict, in its order
Ordinals ==
    <<[word |-> "first", num |-> 1], [word |-> "1st", num |-> 1],
      [word |-> "second", num |-> 2], [word |-> "2nd", num |-> 2],
      [word |-> "third", num |-> 3], [word |-> "3rd", num |-> 3],
      [word |-> "fourth", num |-> 4], [word |-> "4th", num |-> 4],
      [word |-> "fifth", num |-> 5], [word |-> "5th", num |-> 5]>>

RECURSIVE IntAt(_, _, _)
\* int() of the run of digits of text that begins at i, after the value so far
IntAt(text, i, sofar) ==
    IF DigitAt(text, i)
    THEN IntAt(text, i + 1,
               sofar * 10 + (CHOOSE d \in 0..9 : CharAt(Digits, d + 1) = CharAt(text, i)))
    ELSE sofar

\* _extract_book_number(message)
extract_book_number(message) ==
    LET msg == Lower(message)
        named == {n \in 1..Len(Ordinals) : Contains(msg, Ordinals[n].word)}
        refs == {i \in 1..Len(msg) : NumberRefAt(msg, i, FALSE) # 0}
    IN  IF named # {}
        THEN Ordinals[CHOOSE n \in named : \A o \in named : n <= o].num
        ELSE IF refs # {}
        THEN IntAt(msg, NumberRefAt(msg, CHOOSE i \in refs : \A o \in refs : i <= o, FALSE), 0)
        ELSE 1

(***************************************************************************)
(* Chatbot (chatbot.py): respond                                           *)
(***************************************************************************)
\* the exception of a tracker whose file cannot be written
TrackerErrors == {"OSError"}

\* a message reaches recommend_books: it is not blank and its intent is
\* 'recommend' or 'general'
Recommends(message) ==
    Strip(message) # "" /\ detect_intent(message) \in {"recommend", "general"}

\* what the library calls of one respond call can do: chat_detect is the
\* outcome of respond's own langdetect call, tracker that of the tracker's
\* writes, the rest those of the recommend_books call, if there is one
ChatExternals(message, available) ==
    {[chat_detect |-> c, detect |-> e.detect, encode |-> e.encode,
      search |-> e.search, tracker |-> t] :
        c \in ImportAndDetect(message, available),
        e \in (IF Recommends(message) THEN Externals(message, available) ELSE {NotCalled}),
        t \in {"ok"} \cup TrackerErrors}

\* no library call of the turn fails
ChatWorks(ext) == ext.tracker = "ok" /\ (ext.encode # "none" => NoFault(ext))

\* a log_* method called on tracker value tr from a single thread
TrackerLog(tr, method, a) ==
    [tr EXCEPT !.file = StoredFile(Appended(read_data(tr.file), method, a, tr.clock)),
               !.clock = @ + 1]

RECURSIVE LogBookViews(_, _)
\* for rec in recommendations: tracker.log_book_view(rec['title'], source='chatbot')
LogBookViews(tr, recommendations) ==
    IF recommendations = <<>> THEN tr
    ELSE LogBookViews(TrackerLog(tr, "log_book_view",
                                 [book_title |-> recommendations[1].title,
                                  source |-> "chatbot"]),
                      Tail(recommendations))

\* _format_book_detail(book_data): the text is a template filled with the
\* four fields
format_book_detail(book_data) == [kind |-> "detail", book |-> book_data]

\* the branch's outcome: its response (or the exception that leaves respond),
\* and the values of self.last_recommendations and of the tracker after it
Answered(response, last_recommendations, tr) ==
    [exc |-> "none", response |-> response,
     last_recommendations |-> last_recommendations, tracker |-> tr]

\* as FailedTurn, with the remembered list emptied
FailedTurn_Forgets(intent, error) ==
    Answered(IF intent = "recommend" THEN [kind |-> "oops", error |-> error]
             ELSE [kind |-> "not_understood"],
             <<>>, tracker)

\* the except branches of the 'recommend' and the 'general' turn
FailedTurn(intent, error) ==
    Answered(IF intent = "recommend" THEN [kind |-> "oops", error |-> error]
             ELSE [kind |-> "not_understood"],
             chatbot.last_recommendations, tracker)

\* the 'detail' branch; it is outside every try
DetailTurn(message) ==
    LET book_num == extract_book_number(message)
        last == chatbot.last_recommendations
        search_results == search_by_title(message)
    IN  IF last # <<>> /\ 1 <= book_num /\ book_num <= Len(last)
        THEN Answered(format_book_detail(BookRecord(last[book_num])), last, tracker)
        ELSE IF search_results.exc # "none"
        THEN [Answered(None, last, tracker) EXCEPT !.exc = search_results.exc]
        ELSE IF search_results.ret # <<>>
        THEN Answered(format_book_detail(search_results.ret[1]), last, tracker)
        ELSE Answered([kind |-> "no_previous"], last, tracker)

\* the 'recommend' branch (k=5, logs a search and a view of every book) and
\* the 'general' branch (k=3, logs nothing), after their recommend_books call
\* with outcome result.  The recommendations are kept in the response as they
\* are: the cut of a description to 250 characters and the layout of the text
\* are not modelled.
RecommendOutcome(message, intent, lang, ext, result) ==
    LET recommendations == result.ret
        lang_name == IF recommendations # <<>> THEN recommendations[1].language_name
                     ELSE "English"
        searched == TrackerLog(tracker, "log_search",
                               [query |-> message, language |-> lang,
                                num_results |-> Len(recommendations),
                                results |-> recommendations])
    IN  IF result.exc # "none" THEN FailedTurn(intent, result.exc)
        ELSE IF intent = "general"
        THEN Answered([kind |-> "unsure", recommendations |-> recommendations],
                      recommendations, tracker)
        ELSE IF ext.tracker # "ok"
        THEN Answered([kind |-> "oops", error |-> ext.tracker], recommendations, tracker)
        ELSE Answered([kind |-> "recommendations", language_name |-> lang_name,
                       recommendations |-> recommendations],
                      recommendations, LogBookViews(searched, recommendations))

\* the 'recommend' and the 'general' branch
RecommendTurn(message, intent, lang, ext) ==
    RecommendOutcome(message, intent, lang, ext,
                     recommend_books(message, IF intent = "recommend" THEN 5 ELSE 3, ext))

\* the branch of respond that the intent selects
Branch(message, intent, lang, ext) ==
    IF intent \in {"greeting", "help", "thanks"}
    THEN Answered([kind |-> intent], chatbot.last_recommendations, tracker)
    ELSE IF intent = "detail" THEN DetailTurn(message)
    ELSE RecommendTurn(message, intent, lang, ext)

\* what a call of respond leaves: the response returned or the exception
\* raised, and the values of self.last_recommendations and of the tracker
Outcome(result, last_recommendations, tr) ==
    [exc |-> result.exc, ret |-> result.ret,
     last_recommendations |-> last_recommendations, tracker |-> tr]

\* the end of respond, after the branch with outcome turn: the turn is logged
\* as a chatbot message, outside every try
EndTurn(message, lang, ext, turn) ==
    IF turn.exc # "none"
    THEN Outcome(Raise(turn.exc), turn.last_recommendations, turn.tracker)
    ELSE IF ext.tracker # "ok"
    THEN Outcome(Raise(ext.tracker), turn.last_recommendations, turn.tracker)
    ELSE Outcome(Return(turn.response), turn.last_recommendations,
                 TrackerLog(turn.tracker, "log_chatbot_message",
                            [user_message |-> message, bot_response |-> turn.response,
                             language |-> lang]))

\* the language respond logs: that of its langdetect call, 'en' when it fails
ChatLanguage(ext) == IF ext.chat_detect = "fail" THEN "en" ELSE ext.chat_detect

\* respond(message, history)
respond(message, ext) ==
    IF message = "" \/ Strip(message) = ""
    THEN Outcome(Return([kind |-> "empty"]), chatbot.last_recommendations, tracker)
    ELSE EndTurn(message, ChatLanguage(ext), ext,
                 Branch(message, detect_intent(message), ChatLanguage(ext), ext))

(***************************************************************************)
(* Specification of the chat tab: one BookChatbot serves every session     *)
(***************************************************************************)
\* number of browser sessions with the chat tab open
NumSessions == 2

Sessions == 1..NumSessions

\* largest number of chatbot messages in the tracker's file
MaxTurns == 2

\* the messages typed
ChatMessages ==
    {"Recommend me a good book to read", "War Heart", "  ",
     "please tell me more about #2", "what is the second one please",
     "open number 4 of that list", "Tell me more about that book",
     "tell me more about the third one", "please tell me more about 2"}

\* build_chatbot_tab: chatbot_engine = BookChatbot(recommender, tracker), and
\* an empty gr.Chatbot value in every session
InitChat ==
    /\ books_df = Catalog
    /\ model = DefaultModel
    /\ index = BuildIndex(Catalog, model)
    /\ op = "init"
    /\ args = <<>>
    /\ ret = <<>>
    /\ exc = "none"
    /\ done = FALSE
    /\ langdetect_available \in BOOLEAN
    /\ files = Installed(books_df, index, model)
    /\ externals = NotCalled
    /\ locals = <<>>
    /\ tracker = NewTracker
    /\ chatbot = [last_recommendations |-> <<>>, history |-> [s \in Sessions |-> <<>>]]
    /\ curiosity_engine = <<>>

\* user_send(message, history) in session s: a blank message is ignored;
\* otherwise the message and the response are added to the session's
\* history, which stays as it was when respond raises
UserSend(s, message, ext) ==
    /\ Len(read_data(tracker.file).chatbot_conversations) < MaxTurns
    /\ op' = "user_send"
    /\ args' = [session |-> s, message |-> message]
    /\ done' = TRUE
    /\ IF message = "" \/ Strip(message) = ""
       THEN /\ ret' = [kind |-> "ignored"]
            /\ exc' = "none"
            /\ externals' = NotCalled
            /\ UNCHANGED <<tracker, chatbot>>
       ELSE /\ externals' = ext
            /\ \E result \in {respond(message, ext)} :
                 /\ ret' = result.ret
                 /\ exc' = result.exc
                 /\ tracker' = result.tracker
                 /\ chatbot' =
                      [chatbot EXCEPT
                         !.last_recommendations = result.last_recommendations,
                         !.history[s] =
                            IF result.exc # "none" THEN @
                            ELSE @ \o <<[role |-> "user", content |-> message],
                                        [role |-> "assistant", content |-> result.ret]>>]
    /\ UNCHANGED <<recommender, environment, locals, curiosity_engine>>

\* the Clear Chat button of session s: lambda: ([], "")
ClearChat(s) ==
    /\ op' = "clear_chat"
    /\ args' = [session |-> s]
    /\ ret' = None
    /\ exc' = "none"
    /\ done' = TRUE
    /\ chatbot' = [chatbot EXCEPT !.history[s] = <<>>]
    /\ externals' = NotCalled
    /\ UNCHANGED <<recommender, environment, locals, tracker, curiosity_engine>>

\* one conversation, with libraries and a tracker that work
NextChat ==
    \E message \in ChatMessages :
        \E ext \in ChatExternals(message, langdetect_available) :
            ChatWorks(ext) /\ UserSend(1, message, ext)

SpecChat == InitChat /\ [][NextChat]_vars

(***************************************************************************)
(* Specification of the chat tab with failing libraries                    *)
(***************************************************************************)
FaultMessages ==
    {"Recommend me a good book to read", "War Heart", "please tell me more about #2",
     "please tell me more about ("}

\* langdetect is not installed: respond's language is 'en' in every turn
InitChatFaults == InitChat /\ ~langdetect_available

NextChatFaults ==
    \E message \in FaultMessages :
        \E ext \in ChatExternals(message, langdetect_available) :
            UserSend(1, message, ext)

SpecChatFaults == InitChatFaults /\ [][NextChatFaults]_vars

(***************************************************************************)
(* Specification of the chat tab used from several sessions                *)
(***************************************************************************)
SessionMessages ==
    {"Recommend me a good book to read", "please tell me more about #2"}

NextSessions ==
    \/ \E s \in Sessions, message \in SessionMessages :
          \E ext \in ChatExternals(message, langdetect_available) :
              ChatWorks(ext) /\ UserSend(s, message, ext)
    \/ \E s \in Sessions : ClearChat(s)

SpecSessions == InitChat /\ [][NextSessions]_vars

(***************************************************************************)
(* Curiosity engine (curiosity_engine.py): reading journeys                *)
(***************************************************************************)
\* CuriosityEngine(recommender, tracker, n_clusters=8)
DefaultClusters == 8

\* self.n_clusters = min(n_clusters, len(recommender.books_df) // 3)
BooksPerCluster == 3

n_clusters(df) ==
    IF Len(df) \div BooksPerCluster < DefaultClusters THEN Len(df) \div BooksPerCluster
    ELSE DefaultClusters

\* kmeans.fit_predict: a cluster for every row; which one depends on the
\* embeddings and on the fit
ClusterLabels(df) == [1..Len(df) -> 0..(n_clusters(df) - 1)]

\* the rows of cluster c, in the order of books_df
ClusterBooks(c) ==
    SelectSeq([i \in 1..Len(books_df) |-> [row |-> i, book |-> books_df[i]]],
              LAMBDA r : curiosity_engine.cluster_labels[r.row] = c)

\* _get_user_interacted_books: the titles of the search results and of the
\* book views in the tracker's file, read without the lock
get_user_interacted_books ==
    LET data == read_data(tracker.file)
    IN  UNION {{data.searches[i].result_titles[j] :
                   j \in 1..Len(data.searches[i].result_titles)} :
               i \in 1..Len(data.searches)}
        \cup {data.book_views[i].title : i \in 1..Len(data.book_views)}

\* _get_book_indices(titles): for every title found, its first row
get_book_indices(titles) ==
    [title \in {t \in titles : \E i \in 1..Len(books_df) : books_df[i].title = t} |->
        CHOOSE i \in 1..Len(books_df) :
            /\ books_df[i].title = title
            /\ \A j \in 1..(i - 1) : books_df[j].title # title]

\* analyze_user_profile(): the profiles it can return.  The titles are
\* counted in the order of list(set(...)), and of the clusters counted
\* equally often most_common(1) names the one met first.
analyze_user_profile ==
    LET book_indices == get_book_indices(get_user_interacted_books)
        Count(c) == Cardinality({t \in DOMAIN book_indices :
                                    curiosity_engine.cluster_labels[book_indices[t]] = c})
        touched == {curiosity_engine.cluster_labels[book_indices[t]] :
                       t \in DOMAIN book_indices}
    IN  IF DOMAIN book_indices = {}
        THEN {[is_new_user |-> TRUE, dominant_cluster_id |-> -1]}
        ELSE {[is_new_user |-> FALSE, dominant_cluster_id |-> c] :
                 c \in {c \in touched : \A o \in touched : Count(c) >= Count(o)}}

\* predict_curiosity_expansion(profile): the clusters that can come first in
\* the list it returns; for a returning user the order follows scores computed
\* from the distances of the centroids
ExpansionTargets(profile) ==
    IF profile.is_new_user
    THEN (IF curiosity_engine.n_clusters > 0 THEN {0} ELSE {})
    ELSE {c \in 0..(curiosity_engine.n_clusters - 1) : c # profile.dominant_cluster_id}

\* number of neighbours asked of the index for the bridge book
BridgeNeighbours == 10

\* index.search(midpoint, 10)[1][0]: the rows in the order of their distance
\* from the midpoint, which the embeddings decide; -1 where the index has
\* fewer vectors
SearchOrders ==
    LET n == Len(books_df)
    IN  {[i \in 1..BridgeNeighbours |->
            IF i <= n THEN (first + i - 1) % n ELSE -1] : first \in 0..(n - 1)}

\* the dict of a journey step; the rationale text is left out
JourneyStep(step, book, novelty_level) ==
    [step |-> step, title |-> book.title, authors |-> book.authors,
     categories |-> book.categories, description |-> Take(book.description, 200),
     novelty_level |-> novelty_level]

StepTitles(journey_books) == {journey_books[i].title : i \in 1..Len(journey_books)}

\* books_df.head(3)
HeadRows == 3

\* _default_journey()
default_journey ==
    [kind |-> "default",
     steps |-> [i \in 1..(IF Len(books_df) < HeadRows THEN Len(books_df) ELSE HeadRows) |->
                  JourneyStep(i, books_df[i], "Moderate")]]

\* _new_user_journey(target)
new_user_journey(target) ==
    LET cluster_books == Take(ClusterBooks(target), HeadRows)
    IN  [kind |-> "new_user",
         steps |-> [i \in 1..Len(cluster_books) |->
                      JourneyStep(i, cluster_books[i].book,
                                  <<"Familiar", "Moderate", "High">>[i])]]

RECURSIVE FillFromPool(_, _)
\* while len(journey_books) < steps: append the first book of books_df whose
\* title is not in the journey; stop when there is none
FillFromPool(journey_books, steps) ==
    LET fresh == {i \in 1..Len(books_df) : books_df[i].title \notin StepTitles(journey_books)}
        first == CHOOSE i \in fresh : \A o \in fresh : i <= o
    IN  IF Len(journey_books) >= steps \/ fresh = {} THEN journey_books
        ELSE FillFromPool(Append(journey_books,
                                 JourneyStep(Len(journey_books) + 1, books_df[first],
                                             "Moderate")),
                          steps)

\* generate_reading_journey(profile, steps), with the first expansion target
\* (-1 when there is none) and the search result for the bridge book
generate_reading_journey(profile, steps, target_id, indices) ==
    LET dominant_id == profile.dominant_cluster_id
        dominant_books == ClusterBooks(dominant_id)
        interacted == get_user_interacted_books
        unseen_dominant == SelectSeq(dominant_books, LAMBDA r : r.book.title \notin interacted)
        anchor == IF Len(unseen_dominant) > 0 THEN unseen_dominant[1].book
                  ELSE IF Len(dominant_books) > 0 THEN dominant_books[1].book
                  ELSE books_df[1]
        anchored == <<JourneyStep(1, anchor, "Familiar")>>
        bridges == {i \in 1..Len(indices) :
                       Iloc(books_df, indices[i]).title \notin StepTitles(anchored)}
        bridged == IF bridges # {}
                   THEN Append(anchored,
                               JourneyStep(2, Iloc(books_df,
                                                   indices[CHOOSE i \in bridges :
                                                              \A o \in bridges : i <= o]),
                                           "Moderate"))
                   ELSE IF Len(books_df) > 1
                   THEN Append(anchored, JourneyStep(2, books_df[2], "Moderate"))
                   ELSE anchored
        target_books_unseen ==
            SelectSeq(ClusterBooks(target_id),
                      LAMBDA r : r.book.title \notin StepTitles(bridged))
        remaining_steps == steps - Len(bridged)
        taken == IF remaining_steps < 0 THEN 0
                 ELSE IF remaining_steps < Len(target_books_unseen) THEN remaining_steps
                 ELSE Len(target_books_unseen)
        explored == bridged \o
                    [i \in 1..taken |->
                        JourneyStep(Len(bridged) + i, target_books_unseen[i].book,
                                    IF i > 1 THEN "High" ELSE "Moderate-High")]
    IN  IF target_id = -1 THEN default_journey
        ELSE IF profile.is_new_user THEN new_user_journey(target_id)
        ELSE [kind |-> "journey", from_cluster |-> dominant_id, to_cluster |-> target_id,
              steps |-> FillFromPool(explored, steps)]

(***************************************************************************)
(* Specification of generate_reading_journey                               *)
(***************************************************************************)
\* largest corpus of the engine
MaxJourneyBooks == 6

\* largest number of book views in the tracker's file
MaxViews == 2

JourneyTitles ==
    <<"The Last Clue", "Toward the Glove", "Dark Empire", "Mockingbird",
      "Go Set a Watchman", "Dune", "Emma", "Ulysses">>

\* a corpus of n books with titles of their own, as preprocessing leaves it
JourneyCorpus(n) ==
    [i \in 1..n |-> [Catalog[((i - 1) % Len(Catalog)) + 1] EXCEPT !.title = JourneyTitles[i]]]

\* the steps argument: 3 in the app's call, 3-5 by the docstring
JourneySteps == 3..5

\* a tracker whose file holds a view of each of the titles
TrackerWithViews(titles) ==
    [NewTracker EXCEPT
        !.file = StoredFile([EmptyData EXCEPT
                    !.book_views = [i \in 1..Len(titles) |->
                                      LogEntry("log_book_view",
                                               [book_title |-> titles[i], source |-> "search"],
                                               i - 1)]]),
        !.clock = Len(titles)]

\* the titles of rows, in the order of the rows
TitlesOf(rows) ==
    LET kept == SelectSeq([i \in 1..Len(books_df) |-> i], LAMBDA i : i \in rows)
    IN  [i \in 1..Len(kept) |-> books_df[kept[i]].title]

InitJourney ==
    /\ \E n \in BooksPerCluster..MaxJourneyBooks : books_df = JourneyCorpus(n)
    /\ model = DefaultModel
    /\ index = BuildIndex(books_df, model)
    /\ op = "generate_reading_journey"
    /\ args \in [steps : JourneySteps]
    /\ ret = <<>>
    /\ exc = "none"
    /\ done = FALSE
    /\ langdetect_available = TRUE
    /\ files = Installed(books_df, index, model)
    /\ externals = NotCalled
    /\ locals = <<>>
    /\ \E rows \in {r \in SUBSET (1..Len(books_df)) : Cardinality(r) <= MaxViews} :
          tracker = TrackerWithViews(TitlesOf(rows))
    /\ chatbot = <<>>
    /\ \E labels \in ClusterLabels(books_df) :
          curiosity_engine = [n_clusters |-> n_clusters(books_df), cluster_labels |-> labels]

\* _build_curiosity_html: profile = engine.analyze_user_profile() and
\* journey = engine.generate_reading_journey(profile, steps)
GenerateJourney ==
    /\ op = "generate_reading_journey"
    /\ ~done
    /\ \E profile \in analyze_user_profile :
         \E target_id \in (IF ExpansionTargets(profile) = {} THEN {-1}
                           ELSE ExpansionTargets(profile)) :
           \E indices \in (IF target_id = -1 \/ profile.is_new_user THEN {<<>>}
                           ELSE SearchOrders) :
              /\ ret' = generate_reading_journey(profile, args.steps, target_id, indices)
              /\ externals' = [profile |-> profile, target_id |-> target_id,
                               indices |-> indices]
    /\ done' = TRUE
    /\ UNCHANGED <<recommender, environment, op, args, exc, locals, services>>

NextJourney == GenerateJourney

SpecJourney == InitJourney /\ [][NextJourney]_vars

(***************************************************************************)
(* Preprocessing (preprocess.py)                                           *)
(***************************************************************************)
Columns == {"title", "authors", "categories", "description"}

\* fields that pandas.read_csv takes for missing values
NaValues == {"", "NA", "N/A", "NaN", "nan", "null", "NULL", "None", "n/a", "#N/A", "<NA>"}

\* a missing value in a data frame; read_csv yields no cell with this text,
\* so the text is free to stand for it
NaN == "NaN"

\* pd.read_csv(input_path), for columns of text
read_csv(rows) ==
    [i \in 1..Len(rows) |->
        [c \in Columns |-> IF rows[i][c] \in NaValues THEN NaN ELSE rows[i][c]]]

\* df.to_csv(output_path, index=False): a missing value is written as an
\* empty field
to_csv(df) ==
    [i \in 1..Len(df) |-> [c \in Columns |-> IF df[i][c] = NaN THEN "" ELSE df[i][c]]]

\* df[column].fillna(value)
fillna(cell, value) == IF cell = NaN THEN value ELSE cell

\* df.drop_duplicates(subset=['title'], keep='first'); missing titles count
\* as equal
drop_duplicates(df) ==
    LET kept == SelectSeq([i \in 1..Len(df) |-> i],
                          LAMBDA i : \A j \in 1..(i - 1) : df[j].title # df[i].title)
    IN  [i \in 1..Len(kept) |-> df[kept[i]]]

\* preprocess_books: the data frame it returns, from the rows of the input
preprocess_books(rows) ==
    LET loaded == read_csv(rows)
        described == SelectSeq(SelectSeq(loaded, LAMBDA r : r.description # NaN),
                               LAMBDA r : Strip(r.description) # "")
        normalized == [i \in 1..Len(described) |->
                          [described[i] EXCEPT
                              !.description = Strip(@),
                              !.authors = fillna(@, "Unknown"),
                              !.categories = fillna(@, "Unknown")]]
    IN  drop_duplicates(normalized)

(***************************************************************************)
(* Specification of preprocess_books                                       *)
(***************************************************************************)
\* largest number of rows of the input file
MaxRawRows == 2

\* rows of data/books.csv
RawRows ==
    [title : {"", "Dune", "Emma"}, authors : {"NA", "Frank Herbert"},
     categories : {"", "Fiction"}, description : {"", "  ", " A desert planet. "}]

RECURSIVE SeqsUpTo(_, _)
\* the sequences of at most n elements of set
SeqsUpTo(set, n) ==
    IF n = 0 THEN {<<>>}
    ELSE LET shorter == SeqsUpTo(set, n - 1)
         IN  shorter \cup {Append(q, e) : q \in {q \in shorter : Len(q) = n - 1}, e \in set}

InitPreprocess ==
    /\ books_df = <<>>
    /\ model = <<>>
    /\ index = <<>>
    /\ op = "preprocess_books"
    /\ args = [input_path |-> "data/books.csv", output_path |-> "data/books_cleaned.csv"]
    /\ ret = <<>>
    /\ exc = "none"
    /\ done = FALSE
    /\ langdetect_available = TRUE
    /\ \E rows \in SeqsUpTo(RawRows, MaxRawRows) :
          files = [books |-> rows, books_cleaned_exists |-> FALSE, books_cleaned |-> <<>>]
    /\ externals = NotCalled
    /\ locals = <<>>
    /\ tracker = <<>>
    /\ chatbot = <<>>
    /\ curiosity_engine = <<>>

\* preprocess_books(): cleans the rows, writes them and returns them
PreprocessBooks ==
    /\ op = "preprocess_books"
    /\ ~done
    /\ ret' = preprocess_books(files.books)
    /\ files' = [files EXCEPT !.books_cleaned_exists = TRUE,
                              !.books_cleaned = to_csv(preprocess_books(files.books))]
    /\ done' = TRUE
    /\ UNCHANGED <<recommender, op, args, exc, langdetect_available, externals, locals,
                   services>>

NextPreprocess == PreprocessBooks

SpecPreprocess == InitPreprocess /\ [][NextPreprocess]_vars

(***************************************************************************)
(* Properties of recommend_books                                           *)
(***************************************************************************)
\* recommend_books has returned a list
Recommended == done /\ op = "recommend_books" /\ exc = "none"

CorpusSize == Len(books_df)

\* C1: for k <= corpus size recommend_books returns exactly k recommendations,
\* ranked 1, 2, ..., k in list order, with distances that never decrease from
\* one rank to the next
C1_RanksAndOrder ==
    (Recommended /\ args.k <= CorpusSize) =>
        /\ Len(ret) = args.k
        /\ \A i \in 1..Len(ret) : ret[i].rank = i
        /\ \A i \in 1..(Len(ret) - 1) : ret[i].distance <= ret[i + 1].distance

\* a full-corpus result whose distances strictly increase
C1_Witness ==
    /\ Recommended
    /\ args.k = CorpusSize
    /\ args.k >= 3
    /\ Len(ret) = args.k
    /\ \A i \in 1..(Len(ret) - 1) : ret[i].distance < ret[i + 1].distance

\* C2: for k > corpus size recommend_books returns exactly corpus-size
\* recommendations and no padding entry
C2_NoPadding ==
    (Recommended /\ args.k > CorpusSize) =>
        /\ Len(ret) = CorpusSize
        /\ \A i \in 1..Len(ret) : ret[i].distance # FLT_MAX

\* C3: the book at rank i is the corpus row whose id is the i-th id the index
\* search returns, and no corpus row left out is strictly closer to the query
\* than a returned one
C3_NearestRows ==
    Recommended =>
        LET x == model[args.query]
            ids == IndexSearch(index, x, args.k)[2]
            returned == {ids[i] : i \in 1..Len(ret)}
        IN  /\ \A i \in 1..Len(ret) :
                  /\ ids[i] \in 0..(CorpusSize - 1)
                  /\ ret[i].title = books_df[ids[i] + 1].title
                  /\ ret[i].authors = books_df[ids[i] + 1].authors
                  /\ ret[i].categories = books_df[ids[i] + 1].categories
                  /\ ret[i].description = books_df[ids[i] + 1].description
            /\ \A j \in 0..(CorpusSize - 1) :
                  j \notin returned =>
                      \A i \in 1..Len(ret) : ~(L2Sqr(index[j + 1], x) < ret[i].distance)

\* exp(-d/10) in units of 1/ScoreScale for the distances d (in units of
\* 1/DistUnit) of the vectors considered; exp(-FLT_MAX/10) is 0 in floating point
ExpReference(n) ==
    CASE n = 0 -> 1000000
      [] n = 1 -> 990050
      [] n = 41 -> 663650
      [] n = 50 -> 606531
      [] n = 181 -> 163654
      [] n = 200 -> 135335
      [] n = FLT_MAX -> 0

\* C4: every recommendation's similarity_score is exp(-distance / 10) of its own
\* distance field (to 2 units of 1/ScoreScale)
C4_ScoreIsExp ==
    Recommended =>
        \A i \in 1..Len(ret) :
            LET diff == ret[i].similarity_score - ExpReference(ret[i].distance)
            IN  diff <= 2 /\ -diff <= 2

\* a result with three different distances, hence three different scores
C4_Witness ==
    /\ Recommended
    /\ Len(ret) >= 3
    /\ ret[1].distance = 1 /\ ret[2].distance = 50 /\ ret[3].distance = 200
    /\ ret[1].similarity_score > ret[2].similarity_score
    /\ ret[2].similarity_score > ret[3].similarity_score

\* C5: in every result, for every k, each similarity_score lies in (0, 1] and
\* the scores never increase from one rank to the next
C5_ScoreRange ==
    Recommended =>
        /\ \A i \in 1..Len(ret) :
              ret[i].similarity_score > 0 /\ ret[i].similarity_score <= ScoreScale
        /\ \A i \in 1..(Len(ret) - 1) :
              ret[i].similarity_score >= ret[i + 1].similarity_score

\* C7: a second recommend_books call with the same query and k, the corpus,
\* index and model unchanged, returns the same output as the first
C7_Idempotent ==
    [][(Recommended /\ op' = "recommend_books" /\ args' = args) => ret' = ret]_vars

(***************************************************************************)
(* Properties of _generate_explanation                                     *)
(***************************************************************************)
Explained == done /\ op = "generate_explanation"

\* C6: match_level is 'Excellent' exactly when the score is above 0.75, 'Good'
\* exactly when it is above 0.55 and at most 0.75, 'Fair' exactly when it is
\* at most 0.55
C6_MatchTiers ==
    Explained =>
        LET s == args.similarity_score
            level == ret.match_level
        IN  /\ level = "Excellent" <=> s > 750000
            /\ level = "Good" <=> (s > 550000 /\ s <= 750000)
            /\ level = "Fair" <=> s <= 550000

\* the score 0.75 itself is rated 'Good'
C6_Witness ==
    Explained /\ args.similarity_score = 750000 /\ ret.match_level = "Good"

\* the names under which the themes are reported, in table order
ThemeNames ==
    <<"Mystery", "Romance", "Adventure", "Fantasy", "Sci-fi", "Horror", "Historical", "Drama">>

\* the entries of the theme table with at least two trigger words in the text
ThemesHit(text) ==
    {t \in 1..Len(theme_keywords) :
        Cardinality({j \in 1..Len(theme_keywords[t][2]) :
                        Contains(text, theme_keywords[t][2][j])}) >= 2}

\* C10: themes lists the capitalised names of the themes with at least 2 trigger
\* words occurring in lowercase(query) + ' ' + lowercase(description), in table
\* order, cut to the first 3; it is exactly ['General Fiction'] when there is
\* none
C10_Themes ==
    Explained =>
        LET hit == ThemesHit(Lower(args.query) \o " " \o Lower(args.book.description))
            themes == ret.themes
        IN  IF hit = {} THEN themes = <<"General Fiction">>
            ELSE /\ Len(themes) = (IF Cardinality(hit) < 3 THEN Cardinality(hit) ELSE 3)
                 /\ \A j \in 1..Len(themes) :
                       \E t \in hit :
                          /\ Cardinality({u \in hit : u < t}) = j - 1
                          /\ themes[j] = ThemeNames[t]

\* more than three themes are detected and the first three are reported
C10_Witness ==
    /\ Explained
    /\ Cardinality(ThemesHit(Lower(args.query) \o " " \o Lower(args.book.description))) > 3
    /\ ret.themes = <<"Romance", "Adventure", "Fantasy">>

\* the keywords recommend_books extracts from the query and passes on
QueryKeywords(query) == extract_keywords(query, 8)

\* kw counts as common to the query and the book
IsCommon(kw, book) ==
    \/ InSeq(kw, extract_keywords(Lower(book.description), 12))
    \/ Contains(Lower(book.description), kw)

\* C11: common_keywords lists the query keywords that are among the book's
\* extracted keywords (top 12 of the description) or occur as a substring of
\* the lowercased description, in query-keyword order, without duplicates,
\* cut to the first 5
C11_CommonKeywords ==
    Explained =>
        LET kws == QueryKeywords(args.query)
            hit == {i \in 1..Len(kws) : IsCommon(kws[i], args.book)}
            common == ret.common_keywords
        IN  /\ Len(common) = (IF Cardinality(hit) < 5 THEN Cardinality(hit) ELSE 5)
            /\ \A j \in 1..Len(common) :
                  \E i \in hit : /\ Cardinality({u \in hit : u < i}) = j - 1
                                 /\ common[j] = kws[i]
            /\ \A i, j \in 1..Len(common) : i # j => common[i] # common[j]

\* 'war' is common only as a substring ('toward'), and of 8 common keywords
\* the first 5 are reported: the two cases are two states, the witness is the
\* second
C11_Witness ==
    /\ Explained
    /\ Len(QueryKeywords(args.query)) = 8
    /\ ret.common_keywords = <<"love", "heart", "fear", "dark", "war">>

\* C12: category_match is true exactly when a query keyword is a substring of
\* the lowercased category, and category_explanation is the affirming template
\* when it is true and the qualifying template otherwise, each quoting the
\* category as stored
C12_CategoryMatch ==
    Explained =>
        LET kws == QueryKeywords(args.query)
            inCategory == \E i \in 1..Len(kws) : Contains(Lower(args.book.categories), kws[i])
        IN  /\ ret.category_match = inCategory
            /\ (kws = <<>>) => (ret.category_match = FALSE)
            /\ ret.category_explanation =
                  (IF inCategory
                   THEN "The book's category '" \o args.book.categories
                        \o "' aligns with your search"
                   ELSE "While categorized as '" \o args.book.categories
                        \o "', the themes match your query")

\* 'history' matches the category 'History' through the lowercasing
C12_Witness ==
    /\ Explained
    /\ args.query = "Ancient history of war"
    /\ args.book.categories = "History"
    /\ ret.category_match = TRUE
    /\ ret.category_explanation = "The book's category 'History' aligns with your search"

(***************************************************************************)
(* Properties of extract_keywords                                          *)
(***************************************************************************)
Extracted == done /\ op = "extract_keywords"

\* w occurs in text as a maximal run of ASCII letters
IsMaximalRun(w, text) ==
    \E i \in 1..(Len(text) - Len(w) + 1) :
        /\ SubSeq(text, i, i + Len(w) - 1) = w
        /\ \A j \in 1..Len(w) : IsAsciiLetter(CharAt(w, j))
        /\ (i = 1 \/ ~IsAsciiLetter(CharAt(text, i - 1)))
        /\ (i + Len(w) > Len(text) \/ ~IsAsciiLetter(CharAt(text, i + Len(w))))

\* C8: extract_keywords returns at most top_n pairwise distinct words, each a
\* maximal run of at least 3 ASCII letters of the lowercased text and none a
\* stop word
C8_Keywords ==
    Extracted =>
        /\ Len(ret) <= args.top_n
        /\ \A i, j \in 1..Len(ret) : i # j => ret[i] # ret[j]
        /\ \A i \in 1..Len(ret) :
              /\ Len(ret[i]) >= 3
              /\ IsMaximalRun(ret[i], Lower(args.text))
              /\ ret[i] \notin STOP_WORDS

\* the example: stop words and short words are left out
C8_Witness ==
    /\ Extracted
    /\ args.text = "A Thrilling Mystery Story about a Detective"
    /\ args.top_n = 3
    /\ ret = <<"thrilling", "mystery", "detective">>

\* the qualifying words of a text, in text order
QualifyingWords(text) == Meaningful(FindAll(Lower(text), 1))

CountIn(w, words) == Cardinality({i \in 1..Len(words) : words[i] = w})

FirstIn(w, words) == CHOOSE i \in 1..Len(words) : words[i] = w /\ \A j \in 1..(i - 1) : words[j] # w

\* v is listed before w: more frequent, or as frequent and seen first
ListedBefore(v, w, words) ==
    \/ CountIn(v, words) > CountIn(w, words)
    \/ CountIn(v, words) = CountIn(w, words) /\ FirstIn(v, words) < FirstIn(w, words)

\* C9: extract_keywords returns the top_n most frequent qualifying words by
\* decreasing frequency; words of equal frequency appear, and are cut off, in
\* the order of their first occurrence
C9_FrequencyOrder ==
    Extracted =>
        LET words == QualifyingWords(args.text)
            distinct == {words[i] : i \in 1..Len(words)}
            kept == {ret[i] : i \in 1..Len(ret)}
        IN  /\ Len(ret) = (IF args.top_n < Cardinality(distinct) THEN args.top_n
                           ELSE Cardinality(distinct))
            /\ kept \subseteq distinct
            /\ \A i, j \in 1..Len(ret) : i < j => ListedBefore(ret[i], ret[j], words)
            /\ \A w \in distinct \ kept : \A i \in 1..Len(ret) : ListedBefore(ret[i], w, words)

\* the more frequent word comes first although it occurs last, and of two
\* words of equal frequency the one seen first is kept
C9_Witness ==
    /\ Extracted
    /\ args.text = "emu cat Dog,Dog,"
    /\ args.top_n = 2
    /\ ret = <<"dog", "emu">>

(***************************************************************************)
(* Properties of search_by_title                                           *)
(***************************************************************************)
Searched == done /\ op = "search_by_title"

\* the rows whose title contains s, both compared in lower case
TitleMatches(s) ==
    LET Has(book) == Contains(Lower(book.title), Lower(s))
    IN  SelectSeq(books_df, Has)

\* C13: for every argument string s, search_by_title(s) does not raise and
\* returns the records of the rows whose title contains s as a substring,
\* compared without regard to case, in row order, cut to the first 5
C13_SubstringSearch ==
    Searched =>
        LET matches == TitleMatches(args.title_query)
        IN  /\ exc = "none"
            /\ Len(ret) = (IF Len(matches) < 5 THEN Len(matches) ELSE 5)
            /\ \A i \in 1..Len(ret) : ret[i] = BookRecord(matches[i])

(***************************************************************************)
(* Properties of recommend_books: failures and batches                     *)
(***************************************************************************)
\* a recommend_books call has ended, by return or by exception
Called == done /\ op = "recommend_books"

\* C14: when the language detector fails on the query (no letters in it, or
\* langdetect cannot be imported) the call still returns: every recommendation
\* is tagged 'en'/'English', and the books, ranks, distances and scores are
\* those of the index search for the query's embedding
C14_DetectionFailure ==
    (Called /\ externals.detect = "fail" /\ NoFault(externals)) =>
        LET found == IndexSearch(index, model[args.query], args.k)
        IN  /\ exc = "none"
            /\ Len(ret) = args.k
            /\ \A i \in 1..Len(ret) :
                  /\ ret[i].language = "en"
                  /\ ret[i].language_name = "English"
                  /\ ret[i].rank = i
                  /\ ret[i].distance = found[1][i]
                  /\ ret[i].similarity_score = NpExpNeg(found[1][i])
                  /\ ret[i].title = Iloc(books_df, found[2][i]).title

\* the detector is missing and the query is one it would have classified
C14_Witness ==
    /\ Recommended
    /\ ~langdetect_available
    /\ externals.detect = "fail"
    /\ HasLetter(args.query)
    /\ args.k >= 2
    /\ ret[1].language = "en"

\* the stage of recommend_books that failed in the observed call
FailedStage ==
    IF externals.encode \in EncodeErrors THEN "embedding"
    ELSE IF externals.search \in SearchErrors THEN "index search"
    ELSE "none"

\* C15: when the embedder or the index search fails the call raises, returns
\* no list, and the exception tells the failed stage: it is not one the other
\* stage's failure would raise as well
C15_StageNamed ==
    (Called /\ FailedStage # "none") =>
        /\ exc # "none"
        /\ ret = <<>>
        /\ FailedStage = "embedding" => exc \notin SearchErrors
        /\ FailedStage = "index search" => exc \notin EncodeErrors

\* files.index and files.metadata differ in size, or files.index and
\* files.model in dimension
Incompatible(config) ==
    \/ Len(config.index) # Len(config.metadata)
    \/ \E t \in DOMAIN config.model : Len(config.model[t]) # IndexDim(config.index)

Misconfigured(config) ==
    \/ ~config.index_exists
    \/ ~config.metadata_exists
    \/ ~config.model_exists
    \/ Incompatible(config)

\* C16: with a file missing, or with index, metadata and model that do not fit
\* together, __init__ raises; and no recommend_books call ends with the
\* IndexError or AssertionError of a mismatch
C16_FailsAtStartup ==
    /\ (done /\ op = "__init__" /\ Misconfigured(files)) => exc # "none"
    /\ Called => exc \notin {"IndexError", "AssertionError"}

\* text has a run of at least 3 letters that is not a stop word
HasKeyword(text) ==
    \E i, j \in 1..Len(text) :
        /\ j >= i + 2
        /\ IsMaximalRun(SubSeq(Lower(text), i, j), Lower(text))
        /\ SubSeq(Lower(text), i, j) \notin STOP_WORDS

\* the queries without a keyword
KeywordlessQueries == {q \in Queries : ~HasKeyword(q)}

\* C17: for an empty query, or one with no word of at least 3 letters outside
\* the stop words, and an embedder and index that work, recommend_books
\* returns the k results of the search for the query's embedding, and every
\* explanation has no query keywords, no common keywords and no category match
C17_NoKeywords ==
    (Called /\ NoFault(externals) /\ args.query \in KeywordlessQueries) =>
        LET found == IndexSearch(index, model[args.query], args.k)
        IN  /\ exc = "none"
            /\ Len(ret) = args.k
            /\ \A i \in 1..Len(ret) :
                  /\ ret[i].distance = found[1][i]
                  /\ ret[i].title = Iloc(books_df, found[2][i]).title
                  /\ ret[i].explanation.query_keywords = <<>>
                  /\ ret[i].explanation.common_keywords = <<>>
                  /\ ret[i].explanation.category_match = FALSE

\* a query of stop words and short words only, answered with two books
C17_Witness ==
    /\ Recommended
    /\ args.query = "Recommend me a good book to read"
    /\ args.k = 2
    /\ Len(books_df) >= 2
    /\ ret[1].title # ret[2].title
    /\ ret[2].explanation.query_keywords = <<>>

\* C18: all recommendations of one call carry the same language and
\* language_name, those detected for the query, and the same
\* explanation.query_keywords, the first 6 keywords of the query
C18_OncePerCall ==
    Recommended =>
        \A i \in 1..Len(ret) :
            /\ ret[i].language = ret[1].language
            /\ ret[i].language_name = ret[1].language_name
            /\ ret[i].language = detect_language(externals.detect)[1]
            /\ ret[i].explanation.query_keywords = ret[1].explanation.query_keywords
            /\ ret[i].explanation.query_keywords = Take(QueryKeywords(args.query), 6)

\* three different books, a detected language other than the default, and a
\* query with keywords
C18_Witness ==
    /\ Recommended
    /\ args.k = 3
    /\ Cardinality({ret[i].title : i \in 1..3}) = 3
    /\ ret[3].language = "nl"
    /\ ret[3].explanation.query_keywords = <<"war", "heart">>

(***************************************************************************)
(* Properties of generate_embeddings                                       *)
(***************************************************************************)
\* generate_embeddings has written the index and the metadata
Embedded == done /\ op = "generate_embeddings" /\ exc = "none"

\* C19: the index written holds one vector per metadata row, and the vector
\* at position i is the embedding of the description of metadata row i
C19_RowVectorAligned ==
    Embedded =>
        /\ files.index_exists /\ files.metadata_exists
        /\ files.metadata = locals.df
        /\ Len(files.index) = Len(files.metadata)
        /\ \A i \in 1..Len(files.metadata) :
              files.index[i] = model[files.metadata[i].description]

\* a dataset of two full batches and a partial one
C19_Witness ==
    /\ Embedded
    /\ Len(files.metadata) > 2 * batch_size
    /\ Len(files.metadata) % batch_size # 0
    /\ files.index[Len(files.index)] # files.index[1]

(***************************************************************************)
(* Properties of concurrent calls                                          *)
(***************************************************************************)
\* the results the call of thread t has when it runs alone
AloneResults(t) ==
    LET call == locals[t]
    IN  IF call.op = "recommend_books"
        THEN {recommend_books(call.args.query, call.args.k, ext) :
                ext \in {e \in Externals(call.args.query, langdetect_available) : NoFault(e)}}
        ELSE IF call.op = "search_by_title" THEN {search_by_title(call.args.title_query)}
        ELSE {get_book_info(call.args.title)}

\* C20: the corpus table and the index stay as they were loaded, and a call
\* that has ended beside the calls of other threads has a result it has when
\* it runs alone
C20_NoInterference ==
    (op = "threads") =>
        /\ books_df = files.metadata
        /\ index = files.index
        /\ \A t \in Threads :
              locals[t].pc = "done" =>
                  [exc |-> locals[t].exc, ret |-> locals[t].ret] \in AloneResults(t)

\* a get_book_info call has ended while a recommend_books call of another
\* thread, begun before, is between its index search and its loop
C20_Witness ==
    /\ op = "threads"
    /\ \E t, u \in Threads :
          /\ At(t, "get_book_info", "done")
          /\ locals[t].ret = BookRecord(Catalog[3])
          /\ At(u, "recommend_books", "build")

(***************************************************************************)
(* Properties of the explanation's keyword fields                          *)
(***************************************************************************)
\* C27: every keyword of an explanation's common_keywords is also in that
\* explanation's query_keywords field
C27_CommonWithinQuery ==
    Explained =>
        \A i \in 1..Len(ret.common_keywords) :
            InSeq(ret.common_keywords[i], ret.query_keywords)

(***************************************************************************)
(* Properties of the interaction tracker                                   *)
(***************************************************************************)
\* the threads that call a log_* method
Loggers == {t \in Clients : locals[t].op # "get_summary_stats"}

\* the entry of thread t's call
EntryOf(t) == LogEntry(locals[t].op, locals[t].args, locals[t].now)

\* how often entry occurs in list
Occurrences(entry, list) == Cardinality({i \in 1..Len(list) : list[i] = entry})

\* C21: once all the concurrent calls have returned, the file holds the entry
\* of every log_* call exactly once in the call's list, and no other entry
C21_NoLostEvent ==
    (op = "threads" /\ \A t \in Clients : locals[t].pc = "done") =>
        /\ tracker.file.complete
        /\ \A t \in Loggers :
              Occurrences(EntryOf(t), tracker.file.data[LogList(locals[t].op)]) = 1
        /\ \A name \in ListNames :
              Len(tracker.file.data[name])
                  = Cardinality({t \in Loggers : LogList(locals[t].op) = name})

\* two calls that append to the same list have both returned
C21_Witness ==
    /\ op = "threads"
    /\ \A t \in Clients : locals[t].pc = "done"
    /\ \E t, u \in Loggers : t # u /\ locals[t].op = locals[u].op
    /\ Len(tracker.file.data.searches) >= 2

\* list is the beginning of longer
IsPrefix(list, longer) ==
    Len(list) <= Len(longer) /\ \A i \in 1..Len(list) : longer[i] = list[i]

\* C22: every log_* call adds one entry at the end of its own list and leaves
\* the entries stored before, of every list, as they were and where they were;
\* a read changes nothing
C22_AppendOnly ==
    [][/\ tracker.file.complete /\ tracker'.file.complete
       /\ \A name \in ListNames :
             /\ IsPrefix(tracker.file.data[name], tracker'.file.data[name])
             /\ Len(tracker'.file.data[name])
                   = Len(tracker.file.data[name])
                     + (IF op' = "get_summary_stats" \/ LogList(op') # name THEN 0 ELSE 1)]_vars

\* a third call has appended to a list that held an entry, beside another
\* list that held one
C22_Witness ==
    /\ done
    /\ op = "log_mood_selection"
    /\ Len(tracker.file.data.mood_selections) = 2
    /\ Len(tracker.file.data.searches) = 1
    /\ tracker.file.data.mood_selections[2].mood = args.mood

\* the log_* calls to list name that have returned
Returned(name) ==
    Cardinality({t \in Loggers : locals[t].pc = "done" /\ LogList(locals[t].op) = name})

\* C28: the data an aggregation reads while log_* calls run holds, in every
\* list it totals, at least the entries of the calls that had returned when
\* the read began
C28_ReadSeesReturned ==
    [][\A t \in Clients :
          (locals[t].op = "get_summary_stats" /\ locals[t].pc = "start"
             /\ locals'[t].pc = "moods") =>
              \A name \in ListNames : Len(locals'[t].data[name]) >= Returned(name)]_vars

(***************************************************************************)
(* Properties of the chatbot                                               *)
(***************************************************************************)
\* the book number each detail message refers to: by '#m', by an ordinal
\* word, by 'number m', by none (book 1), or by a bare number
Refers ==
    {<<"please tell me more about #2", 2>>, <<"what is the second one please", 2>>,
     <<"open number 4 of that list", 4>>, <<"Tell me more about that book", 1>>,
     <<"tell me more about the third one", 3>>, <<"please tell me more about 2", 2>>}

\* the turn just served was message, sent while the chatbot remembered a
\* list of at least m books
DetailAsked(message, m) ==
    /\ done /\ op = "user_send" /\ exc = "none"
    /\ args.message = message
    /\ m <= Len(chatbot.last_recommendations)

\* C23: after a recommendation turn that listed books 1..n, a detail message
\* that refers to book m, 1 <= m <= n, is answered with title, authors,
\* category and description of the m-th book of the most recent list, and a
\* detail message that names no number with those of book 1.
C23_DetailAnswersBookM ==
    \A r \in Refers :
        DetailAsked(r[1], r[2]) =>
            ret = format_book_detail(BookRecord(chatbot.last_recommendations[r[2]]))

\* what the tracker's file holds
Logged == read_data(tracker.file)

\* the step is a 'recommend' or 'general' turn whose recommend_books call
\* raises, with a tracker that can write
FailingTurn ==
    /\ op' = "user_send"
    /\ Recommends(args'.message)
    /\ ~NoFault(externals')
    /\ externals'.tracker = "ok"

\* C24: when recommend_books raises in a 'recommend' or 'general' turn,
\* respond returns the fallback text, last_recommendations keeps its value,
\* no search and no book view is logged, and the turn is logged once as a
\* chatbot message.
C24_FailedTurnKeepsMemory ==
    [][FailingTurn =>
         /\ exc' = "none"
         /\ ret'.kind = (IF detect_intent(args'.message) = "recommend" THEN "oops"
                         ELSE "not_understood")
         /\ chatbot'.last_recommendations = chatbot.last_recommendations
         /\ read_data(tracker'.file).searches = Logged.searches
         /\ read_data(tracker'.file).book_views = Logged.book_views
         /\ \E entry \in {LogEntry("log_chatbot_message",
                                   [user_message |-> args'.message, bot_response |-> ret',
                                    language |-> "en"], tracker.clock)} :
               read_data(tracker'.file).chatbot_conversations =
                   Append(Logged.chatbot_conversations, entry)]_vars

\* a turn failed after one that had recommended books
C24_Witness ==
    /\ done /\ op = "user_send"
    /\ Recommends(args.message) /\ ~NoFault(externals) /\ externals.tracker = "ok"
    /\ ret.kind = "oops"
    /\ Len(chatbot.last_recommendations) = 5
    /\ Len(Logged.searches) = 1
    /\ Len(Logged.book_views) = 5
    /\ Len(Logged.chatbot_conversations) = 2

\* C25: respond returns a response and never raises, also for a detail
\* message without a usable previous recommendation, which is passed to
\* search_by_title, and also when the tracker fails.
C25_RespondNeverRaises ==
    (done /\ op = "user_send") => exc = "none"

\* the books recommended in the conversation that session s shows
RecommendedIn(s) ==
    LET history == chatbot.history[s]
        lists == {i \in 1..Len(history) :
                     /\ history[i].role = "assistant"
                     /\ history[i].content.kind \in {"recommendations", "unsure"}}
    IN  UNION {{BookRecord(history[i].content.recommendations[n]) :
                    n \in 1..Len(history[i].content.recommendations)} : i \in lists}

\* C26: a detail request is answered only from recommendations produced
\* earlier in the same conversation, never with a book recommended in
\* another session or in a conversation that was cleared.
C26_DetailFromOwnConversation ==
    (done /\ op = "user_send" /\ exc = "none" /\ ret.kind = "detail") =>
        ret.book \in RecommendedIn(args.session)

(***************************************************************************)
(* Properties of the curiosity engine                                      *)
(***************************************************************************)
\* a journey was generated for a user with interactions, from a corpus of at
\* least as many titles as steps were asked for
ReturningUserJourney ==
    /\ done /\ op = "generate_reading_journey"
    /\ ~externals.profile.is_new_user
    /\ Cardinality({books_df[i].title : i \in 1..Len(books_df)}) >= args.steps

\* C29: for a returning user, steps in 3..5 and a corpus of at least `steps`
\* distinct titles, the journey has exactly `steps` books with pairwise
\* distinct titles and the step numbers 1..steps in order.
C29_JourneyHasSteps ==
    ReturningUserJourney =>
        /\ Len(ret.steps) = args.steps
        /\ \A i, j \in 1..Len(ret.steps) : i # j => ret.steps[i].title # ret.steps[j].title
        /\ \A i \in 1..Len(ret.steps) : ret.steps[i].step = i

(***************************************************************************)
(* Properties of preprocess_books                                          *)
(***************************************************************************)
\* the rows of the input file that have a description, by their position
Described ==
    {i \in 1..Len(files.books) :
        /\ files.books[i].description \notin NaValues
        /\ Strip(files.books[i].description) # ""}

\* position in the input of the first described row with this title field
FirstRow(title) ==
    CHOOSE i \in Described :
        /\ files.books[i].title = title
        /\ \A j \in Described : files.books[j].title = title => i <= j

\* C30: every row written by preprocess_books has a non-empty title and a
\* non-empty description, has authors and categories ('Unknown' when absent
\* in the input), shares its title with no other row, is the first row of
\* its title in input order, and the rows keep their input order.
C30_WrittenRowsAreBookRecords ==
    (done /\ op = "preprocess_books") =>
        LET written == files.books_cleaned
        IN  /\ \A i \in 1..Len(written) :
                  /\ written[i].title # ""
                  /\ written[i].description # ""
                  /\ written[i].authors # ""
                  /\ written[i].categories # ""
                  /\ \E r \in Described :
                        /\ files.books[r].title = written[i].title
                        /\ r = FirstRow(written[i].title)
                        /\ written[i].authors =
                              (IF files.books[r].authors \in NaValues THEN "Unknown"
                               ELSE files.books[r].authors)
                        /\ written[i].categories =
                              (IF files.books[r].categories \in NaValues THEN "Unknown"
                               ELSE files.books[r].categories)
            /\ \A i, j \in 1..Len(written) :
                  i < j => /\ written[i].title # written[j].title
                           /\ FirstRow(written[i].title) < FirstRow(written[j].title)

====
